---- MODULE Spec2Model ----
(***************************************************************************)
(* The index of the search engine (src/src/adt/index.c) as its caller      *)
(* (src/src/main.c) drives it: index_create, index_document for every     *)
(* file, then index_query and index_stat from the interpreter.            *)
(***************************************************************************)
EXTENDS Integers, Sequences, FiniteSets, TLC

(* ------------------------------ bounds -------------------------------- *)

\* how many index_document calls a run makes
MaxDocs == 2

\* how many terms one document holds at most
MaxTerms == 2

\* how many items the list holds at most (and how far its length field goes)
MaxListLen == 3

\* the items put in the list are 1..MaxItem
MaxItem == 3

\* how many keys with a bucket of their own the map is filled with
MaxFill == 10

\* how many elements that do not compare equal the set is given
MaxSetLen == 4

\* how many elements the sets given to the set operations hold at most
MaxOpLen == 3

\* how many characters a string or a file handed to the tokenizer holds at most
MaxStrLen == 3

\* how many tokens the caller puts in the list before it calls the tokenizer
MaxEntryLen == 1

(* ------------------------------ inputs -------------------------------- *)

\* an indeterminate value: memory that was allocated and never written, or a
\* local variable of the caller that is not in scope
Uninit == "uninit"

\* a NULL list_t pointer: no list, no items
NullList == [null |-> TRUE, items |-> <<>>]

\* document names (file paths) handed to index_document
DocNames == {"doc1", "doc2"}

\* the terms documents are made of; "bird" is in no document
DocTerms == {"cat", "dog"}

\* the terms queries may name
QueryTerms == {"cat", "dog", "bird"}

\* the operator tokens of a query
Operators == {"&", "|", "!", "(", ")"}

\* every sequence over S of length at most n
SeqUpTo(S, n) == UNION {[1..k -> S] : k \in 0..n}

\* the term lists read_file_terms produces
TermLists == SeqUpTo(DocTerms, MaxTerms)

\* the token lists handed to index_query: the empty list, the one to four
\* token queries of the common shapes, and longer ones with parentheses
Queries ==
    {<<>>}
    \cup {<<t>> : t \in QueryTerms}
    \cup {<<"!", t>> : t \in {"cat", "bird"}}
    \cup {<<"cat", o, "dog">> : o \in {"&", "|"}}
    \cup {<<"cat", o, "!", "cat">> : o \in {"&", "|"}}
    \cup { <<"cat", "&">>, <<"&", "cat">>, <<"(", "cat">>, <<"cat", ")">>,
           <<"cat", "dog">>,
           <<"(", "cat", "&", "dog", ")", "|", "!", "bird">>,
           <<"cat", "|", "dog", "&", "bird">>,
           <<"cat", "|", "(", "dog", "&", "bird", ")">>,
           <<"(", "cat", "|", "dog", ")", "&", "bird">>,
           <<"!", "cat", "&", "dog">>,
           <<"(", "!", "cat", ")", "&", "dog">>,
           <<"!", "(", "cat", "&", "dog", ")">> }

(* ------------------------------ state --------------------------------- *)

VARIABLES
    index,          \* the struct index that index_create allocated
    live_iters,     \* list iterators the index created and has not destroyed
    live_allocs,    \* allocations handed to index_document and not freed since
    index_live,     \* the struct index is still allocated
    n_calls,        \* history: how many index_document calls returned 0
    given_docs,     \* history: the doc_name arguments of index_document
    given_terms,    \* history: <<doc_name, term>> for every term of a document
    status,         \* build_index: what index_document returned
    tokens_in,      \* history: the token list as handed to index_query
    query_tokens,   \* run_interpreter: the token list after index_query
    results,        \* execute_query: what index_query returned
    errmsg_buf,     \* execute_query: the error buffer after index_query
    report,         \* execute_query: the branch taken on the outcome
    token_frees,    \* how often each token of the query was freed, once
                    \* run_interpreter has destroyed its token list
    list_frees,     \* how often the token list itself was freed by then
    repeated,       \* history: this query repeats the one run just before it
    n_docs,         \* run_interpreter: n_docs after index_stat
    n_terms,        \* run_interpreter: n_terms after index_stat
    op,             \* the operation that ran last
    \* doublylinkedlist.c
    dll,            \* the struct list: leftmost, rightmost, length
    lnodes,         \* the struct lnode of every node address: right, left, item
    labs,           \* history: the sequence of items the calls so far amount to
    liter,          \* the struct list_iter of the one iterator in use
    lyield,         \* history: the items list_next has returned for liter
    lret,           \* what the last list call returned
    labsret,        \* history: what the last call returns on the sequence labs
    lfault,         \* "none", or how the last list call ended the program
    lop,            \* the list operation that ran last
    \* hashmap.c
    hmap,           \* the struct map: buckets (chains of entries), capacity, length, rehash_threshold
    mabs,           \* history: the entry each key has after the calls so far
    mabsret,        \* history: what the last call returns on the dictionary mabs
    mret,           \* the entry the last map call returned
    mfault,         \* "none", or how the last map call ended the program
    mop,            \* the map operation that ran last
    \* rbtreeset.c
    rbset,          \* the struct set: root, length
    tnodes,         \* the struct tnode at every node address, the sentinel's at NIL
    selem,          \* the element the last set call was given
    sret,           \* the element the last set call returned
    sfault,         \* "none", or how the last set call ended the program
    sop,            \* the set operation that ran last
    siter,          \* the struct set_iter of the one iterator in use
    sorder,         \* history: the elements in ascending order when siter was created
    syield,         \* history: the elements set_next has returned for siter
    \* rbtreeset.c, the set operations
    oheap,          \* the struct tnode at every node address of sets a, b and c
    seta,           \* the struct set of a: root, length
    setb,           \* the struct set of b
    setc,           \* the struct set the last operation returned, or NULL
    osame,          \* whether the last operation was given a as both sets
    ofault,         \* "none", or how the last call ended the program
    oop,            \* the call that ran last
    \* tokenize.c
    tlist,          \* the list of tokens: each a string, a sequence of characters
    tentry,         \* history: the list as the last call was given it
    tstr,           \* history: the string, or the content of the file, of the last call
    tmin,           \* history: the min_token_len of the last call
    tsite,          \* history: the delimitfn, filterfn and transformfn of the last call
    tstatus,        \* what the last call returned
    tfailed,        \* history: an append_token_dup of the last call failed
    tleak,          \* history: strdup copies of the last call neither freed nor in the list
    top             \* the call that ran last

index_vars == <<index, live_iters, live_allocs, index_live, n_calls, given_docs,
                given_terms, status, tokens_in, query_tokens, results,
                errmsg_buf, report, token_frees, list_frees, repeated, n_docs,
                n_terms, op>>

list_vars == <<dll, lnodes, labs, labsret, liter, lyield, lret, lfault, lop>>

map_vars == <<hmap, mabs, mabsret, mret, mfault, mop>>

set_vars == <<rbset, tnodes, selem, sret, sfault, sop, siter, sorder, syield>>

ops_vars == <<oheap, seta, setb, setc, osame, ofault, oop>>

tok_vars == <<tlist, tentry, tstr, tmin, tsite, tstatus, tfailed, tleak, top>>

vars == <<index_vars, list_vars, map_vars, set_vars, ops_vars, tok_vars>>

\* what the calls on one structure leave alone
not_index_vars == <<list_vars, map_vars, set_vars, ops_vars, tok_vars>>
not_list_vars == <<index_vars, map_vars, set_vars, ops_vars, tok_vars>>
not_map_vars == <<index_vars, list_vars, set_vars, ops_vars, tok_vars>>
not_set_vars == <<index_vars, list_vars, map_vars, ops_vars, tok_vars>>
not_ops_vars == <<index_vars, list_vars, map_vars, set_vars, tok_vars>>
not_tok_vars == <<index_vars, list_vars, map_vars, set_vars, ops_vars>>

(* ----------------------------- list.h --------------------------------- *)

\* list_createiter: a new iterator placed on the leftmost node (node 0 when the
\* list is empty), or the NULL iterator when malloc fails
list_createiter(list, malloc_ok) ==
    IF malloc_ok
    THEN [null |-> FALSE, list |-> list, node |-> IF Len(list) = 0 THEN 0 ELSE 1]
    ELSE [null |-> TRUE, list |-> <<>>, node |-> 0]

(* ------------------------ doublylinkedlist.c --------------------------- *)

\* node addresses; 0 is the NULL pointer
NodeIds == 1..MaxListLen

\* the items callers put in the list; 0 is the NULL item
Items == 1..MaxItem

\* the list's cmpfn: items 1 and 2 compare equal, 3 and 4 compare equal, ...
ItemKey(item) == (item + 1) \div 2
cmpfn(a, b) == ItemKey(a) - ItemKey(b)

\* memory of a node that is not allocated
FreedNode == [right |-> 0, left |-> 0, item |-> 0, live |-> FALSE]

\* free(node)
FreeNode(nodes, n) == [nodes EXCEPT ![n] = FreedNode]

\* newnode: malloc of a node (the lowest free address), right and left NULL;
\* NULL when malloc fails
newnode(nodes, item, malloc_ok) ==
    IF ~malloc_ok THEN [node |-> 0, nodes |-> nodes]
    ELSE LET n == CHOOSE a \in NodeIds :
                      ~nodes[a].live /\ \A b \in NodeIds : b < a => nodes[b].live
         IN  [node |-> n,
              nodes |-> [nodes EXCEPT ![n] =
                            [right |-> 0, left |-> 0, item |-> item, live |-> TRUE]]]

\* list_create
list_create == [leftmost |-> 0, rightmost |-> 0, length |-> 0]

\* list_length
list_length(list) == list.length

\* list_addfirst as it would be without the left link of the old leftmost
list_addfirst_no_left(list, nodes, item, malloc_ok) ==
    LET nn == newnode(nodes, item, malloc_ok)
        node == nn.node
    IN  IF node = 0 THEN [list |-> list, nodes |-> nodes, ret |-> -1]
        ELSE IF list.leftmost = 0
        THEN [list |-> [list EXCEPT !.leftmost = node, !.rightmost = node,
                                    !.length = @ + 1],
              nodes |-> nn.nodes, ret |-> 0]
        ELSE [list |-> [list EXCEPT !.leftmost = node, !.length = @ + 1],
              nodes |-> [nn.nodes EXCEPT ![node].right = list.leftmost],
              ret |-> 0]

\* list_addfirst
list_addfirst(list, nodes, item, malloc_ok) ==
    LET nn == newnode(nodes, item, malloc_ok)
        node == nn.node
    IN  IF node = 0 THEN [list |-> list, nodes |-> nodes, ret |-> -1]
        ELSE IF list.leftmost = 0
        THEN [list |-> [list EXCEPT !.leftmost = node, !.rightmost = node,
                                    !.length = @ + 1],
              nodes |-> nn.nodes, ret |-> 0]
        ELSE [list |-> [list EXCEPT !.leftmost = node, !.length = @ + 1],
              nodes |-> [nn.nodes EXCEPT ![list.leftmost].left = node,
                                         ![node].right = list.leftmost],
              ret |-> 0]

\* list_addlast
list_addlast(list, nodes, item, malloc_ok) ==
    LET nn == newnode(nodes, item, malloc_ok)
        node == nn.node
    IN  IF node = 0 THEN [list |-> list, nodes |-> nodes, ret |-> -1]
        ELSE IF list.leftmost = 0
        THEN [list |-> [list EXCEPT !.leftmost = node, !.rightmost = node,
                                    !.length = @ + 1],
              nodes |-> nn.nodes, ret |-> 0]
        ELSE [list |-> [list EXCEPT !.rightmost = node, !.length = @ + 1],
              nodes |-> [nn.nodes EXCEPT ![list.rightmost].right = node,
                                         ![node].left = list.rightmost],
              ret |-> 0]

\* list_popfirst: PANIC when length is 0; tmp->item with tmp NULL is a read
\* through the NULL pointer, a segmentation fault
list_popfirst(list, nodes) ==
    IF list.length = 0
    THEN [list |-> list, nodes |-> nodes, ret |-> 0, fault |-> "panic"]
    ELSE LET tmp == list.leftmost
         IN  IF tmp = 0
             THEN [list |-> list, nodes |-> nodes, ret |-> 0, fault |-> "segv"]
             ELSE LET item == nodes[tmp].item
                      leftmost == nodes[tmp].right
                  IN  [list |-> [leftmost |-> leftmost,
                                 rightmost |-> IF leftmost = 0 THEN 0
                                               ELSE list.rightmost,
                                 length |-> list.length - 1],
                       nodes |-> FreeNode(
                                   IF leftmost = 0 THEN nodes
                                   ELSE [nodes EXCEPT ![leftmost].left = 0], tmp),
                       ret |-> item, fault |-> "none"]

\* list_poplast: the mirror image of list_popfirst
list_poplast(list, nodes) ==
    IF list.length = 0
    THEN [list |-> list, nodes |-> nodes, ret |-> 0, fault |-> "panic"]
    ELSE LET tmp == list.rightmost
         IN  IF tmp = 0
             THEN [list |-> list, nodes |-> nodes, ret |-> 0, fault |-> "segv"]
             ELSE LET item == nodes[tmp].item
                      rightmost == nodes[tmp].left
                  IN  [list |-> [leftmost |-> IF rightmost = 0 THEN 0
                                              ELSE list.leftmost,
                                 rightmost |-> rightmost,
                                 length |-> list.length - 1],
                       nodes |-> FreeNode(
                                   IF rightmost = 0 THEN nodes
                                   ELSE [nodes EXCEPT ![rightmost].right = 0], tmp),
                       ret |-> item, fault |-> "none"]

\* the loop of list_remove and list_contains: the first node from `node` on
\* whose item compares equal to item, or NULL
RECURSIVE FindNode(_, _, _)
FindNode(nodes, node, item) ==
    IF node = 0 THEN 0
    ELSE IF cmpfn(item, nodes[node].item) = 0 THEN node
    ELSE FindNode(nodes, nodes[node].right, item)

\* list_remove: the node is spliced out and freed; length is not written
list_remove(list, nodes, item) ==
    LET node == FindNode(nodes, list.leftmost, item)
    IN  IF node = 0 THEN [list |-> list, nodes |-> nodes, ret |-> 0]
        ELSE LET found == nodes[node].item
                 n1 == IF list.leftmost = node THEN nodes
                       ELSE [nodes EXCEPT ![nodes[node].left].right = nodes[node].right]
                 l1 == IF list.leftmost = node
                       THEN [list EXCEPT !.leftmost = nodes[node].right]
                       ELSE list
                 n2 == IF l1.rightmost = node THEN n1
                       ELSE [n1 EXCEPT ![n1[node].right].left = n1[node].left]
                 l2 == IF l1.rightmost = node
                       THEN [l1 EXCEPT !.rightmost = n1[node].left]
                       ELSE l1
             IN  [list |-> l2, nodes |-> FreeNode(n2, node), ret |-> found]

\* list_contains
list_contains(list, nodes, item) ==
    IF FindNode(nodes, list.leftmost, item) # 0 THEN 1 ELSE 0

\* merge as it would be if it picked from a on "less than or equal" reversed
RECURSIVE MergeLoopDescending(_, _, _, _)
MergeLoopDescending(nodes, a, b, rightmost) ==
    IF a # 0 /\ b # 0
    THEN IF cmpfn(nodes[a].item, nodes[b].item) > 0
         THEN MergeLoopDescending([nodes EXCEPT ![rightmost].right = a],
                                  nodes[a].right, b, a)
         ELSE MergeLoopDescending([nodes EXCEPT ![rightmost].right = b],
                                  a, nodes[b].right, b)
    ELSE [nodes EXCEPT ![rightmost].right = IF a # 0 THEN a ELSE b]

\* the while loop and the tail of merge: the smaller leftmost node is linked
\* after rightmost until a or b runs out, then the rest is appended
RECURSIVE MergeLoop(_, _, _, _)
MergeLoop(nodes, a, b, rightmost) ==
    IF a # 0 /\ b # 0
    THEN IF cmpfn(nodes[a].item, nodes[b].item) < 0
         THEN MergeLoop([nodes EXCEPT ![rightmost].right = a], nodes[a].right, b, a)
         ELSE MergeLoop([nodes EXCEPT ![rightmost].right = b], a, nodes[b].right, b)
    ELSE [nodes EXCEPT ![rightmost].right = IF a # 0 THEN a ELSE b]

\* merge: only the right links are assigned
merge(nodes, a, b) ==
    IF cmpfn(nodes[a].item, nodes[b].item) < 0
    THEN [leftmost |-> a, nodes |-> MergeLoop(nodes, nodes[a].right, b, a)]
    ELSE [leftmost |-> b, nodes |-> MergeLoop(nodes, a, nodes[b].right, b)]

\* the loop of splitlist: where slow stands when fast has reached the end
RECURSIVE SplitSlow(_, _, _)
SplitSlow(nodes, slow, fast) ==
    IF fast # 0 /\ nodes[fast].right # 0
    THEN SplitSlow(nodes, nodes[slow].right, nodes[nodes[fast].right].right)
    ELSE slow

\* splitlist: the list is cut after slow; returns the second half
splitlist(nodes, leftmost) ==
    LET slow == SplitSlow(nodes, leftmost, nodes[leftmost].right)
    IN  [half |-> nodes[slow].right, nodes |-> [nodes EXCEPT ![slow].right = 0]]

\* mergesort_
RECURSIVE mergesort_(_, _)
mergesort_(nodes, leftmost) ==
    IF nodes[leftmost].right = 0 THEN [leftmost |-> leftmost, nodes |-> nodes]
    ELSE LET sp == splitlist(nodes, leftmost)
             lo == mergesort_(sp.nodes, leftmost)
             hi == mergesort_(lo.nodes, sp.half)
         IN  merge(hi.nodes, lo.leftmost, hi.leftmost)

\* the loop of list_sort that fixes the left links and finds the rightmost
RECURSIVE FixLeftLinks(_, _, _)
FixLeftLinks(nodes, n, left) ==
    IF n = 0 THEN [rightmost |-> left, nodes |-> nodes]
    ELSE FixLeftLinks([nodes EXCEPT ![n].left = left], nodes[n].right, n)

\* list_sort: nothing to do when length < 2; mergesort_ reads leftmost->right,
\* which with leftmost NULL is a read through the NULL pointer
list_sort(list, nodes) ==
    IF list.length < 2 THEN [list |-> list, nodes |-> nodes, fault |-> "none"]
    ELSE IF list.leftmost = 0
    THEN [list |-> list, nodes |-> nodes, fault |-> "segv"]
    ELSE LET sorted == mergesort_(nodes, list.leftmost)
             fixed == FixLeftLinks(sorted.nodes, sorted.leftmost, 0)
         IN  [list |-> [list EXCEPT !.leftmost = sorted.leftmost,
                                    !.rightmost = fixed.rightmost],
              nodes |-> fixed.nodes, fault |-> "none"]

\* list_createiter on the node structure: the iterator stands on leftmost;
\* no iterator when malloc fails
list_createiter_at(list, malloc_ok) ==
    [live |-> malloc_ok, node |-> IF malloc_ok THEN list.leftmost ELSE 0]

\* list_hasnext
list_hasnext(iter) == IF iter.node = 0 THEN 0 ELSE 1

\* list_next: the item of the node, and the iterator moved right; NULL and no
\* move when the iterator is exhausted
list_next(iter, nodes) ==
    IF iter.node = 0 THEN [iter |-> iter, ret |-> 0]
    ELSE [iter |-> [iter EXCEPT !.node = nodes[iter.node].right],
          ret |-> nodes[iter.node].item]

\* list_resetiter
list_resetiter(iter, list) == [iter EXCEPT !.node = list.leftmost]

\* list_destroyiter
list_destroyiter(iter) == [live |-> FALSE, node |-> 0]

(* ----------------------------- hashmap.c ------------------------------- *)

\* how many buckets each map starts with
N_BUCKETS_INITIAL == 16

\* the keys callers insert and remove in any order; they collide with each
\* other in the initial buckets
TestKeys == {1, 2, 3}

\* the keys callers insert one after the other and keep; each has a bucket of
\* its own
FillKeys == {Cardinality(TestKeys) + i : i \in 1..MaxFill}


\* key pointers: 2k - 1 and 2k point to two strings that both read k;
\* 0 is the NULL pointer
MapKeyOf(key) == (key + 1) \div 2

\* the value callers store with a key pointer: 1 with the first string of a
\* key, 2 with the second
ValOf(key) == IF key % 2 = 1 THEN 1 ELSE 2

\* the map's cmpfn compares what the keys point to
map_cmpfn(a, b) == MapKeyOf(a) - MapKeyOf(b)

\* the map's hashfn hashes what the key points to
hashfn(key) ==
    IF MapKeyOf(key) \in TestKeys
    THEN N_BUCKETS_INITIAL * (MapKeyOf(key) - 1)
    ELSE MapKeyOf(key) - Cardinality(TestKeys)

\* the NULL entry pointer
NullEntry == [key |-> 0, val |-> 0]

\* calc_rehash_threshold: LF_GROW (0.75) of capacity, rounded down
calc_rehash_threshold(capacity) == (capacity * 3) \div 4

\* map_create: every bucket is the empty chain
map_create ==
    [buckets |-> [i \in 0..(N_BUCKETS_INITIAL - 1) |-> <<>>],
     capacity |-> N_BUCKETS_INITIAL,
     length |-> 0,
     rehash_threshold |-> calc_rehash_threshold(N_BUCKETS_INITIAL)]

\* map_length
map_length(map) == map.length

\* the chains of buckets i_old, i_old + 1, ... one after the other, each from
\* its head along the overflow links: the order in which map_resize visits
\* the nodes
RECURSIVE ChainsFrom(_, _)
ChainsFrom(map, i_old) ==
    IF i_old >= map.capacity THEN <<>>
    ELSE map.buckets[i_old] \o ChainsFrom(map, i_old + 1)

\* the inner loop body of map_resize as it would be with the old capacity as
\* the divisor
RECURSIVE RehashOldCapacity(_, _, _)
RehashOldCapacity(new_buckets, entries, new_capacity) ==
    IF entries = <<>> THEN new_buckets
    ELSE LET i_new == hashfn(Head(entries).key) % (new_capacity \div 2)
         IN  RehashOldCapacity(
                 [new_buckets EXCEPT ![i_new] = <<Head(entries)>> \o @],
                 Tail(entries), new_capacity)

\* the inner loop body of map_resize: each node becomes the head of the chain
\* of its new bucket
RECURSIVE Rehash(_, _, _)
Rehash(new_buckets, entries, new_capacity) ==
    IF entries = <<>> THEN new_buckets
    ELSE LET i_new == hashfn(Head(entries).key) % new_capacity
         IN  Rehash([new_buckets EXCEPT ![i_new] = <<Head(entries)>> \o @],
                    Tail(entries), new_capacity)

\* map_resize: -1 when calloc fails; the assertion n_i == map->length ends
\* the program when it fails
map_resize(map, new_capacity, calloc_ok) ==
    IF ~calloc_ok THEN [map |-> map, ret |-> -1, fault |-> "none"]
    ELSE LET visited == ChainsFrom(map, 0)
             n_i == Len(visited)
             new_buckets == Rehash([i \in 0..(new_capacity - 1) |-> <<>>],
                                   visited, new_capacity)
         IN  IF n_i # map.length
             THEN [map |-> map, ret |-> 0, fault |-> "assert"]
             ELSE [map |-> [map EXCEPT
                              !.buckets = new_buckets,
                              !.capacity = new_capacity,
                              !.rehash_threshold =
                                  calc_rehash_threshold(new_capacity)],
                   ret |-> 0, fault |-> "none"]

\* the position in the chain of the first node whose key compares equal to
\* key, or 0
RECURSIVE ChainFind(_, _, _)
ChainFind(chain, key, i) ==
    IF i > Len(chain) THEN 0
    ELSE IF map_cmpfn(key, chain[i].key) = 0 THEN i
    ELSE ChainFind(chain, key, i + 1)

\* map_insert as it would be if it kept the entry of a key already present
map_insert_keeps_old(map, key, val, entry_ok, node_ok, calloc_ok) ==
    LET bucket_i == hashfn(key) % map.capacity
        head == map.buckets[bucket_i]
        curr == ChainFind(head, key, 1)
        inserted == [map EXCEPT !.buckets[bucket_i] =
                                    <<[key |-> key, val |-> val]>> \o head,
                                !.length = @ + 1]
    IN  IF ~entry_ok THEN [map |-> map, ret |-> NullEntry, fault |-> "panic"]
        ELSE IF curr # 0 THEN [map |-> map, ret |-> head[curr], fault |-> "none"]
        ELSE IF ~node_ok THEN [map |-> map, ret |-> NullEntry, fault |-> "panic"]
        ELSE IF head # <<>> /\ inserted.length >= inserted.rehash_threshold
        THEN LET r == map_resize(inserted, inserted.capacity * 2, calloc_ok)
             IN  [map |-> r.map, ret |-> NullEntry,
                  fault |-> IF r.fault # "none" THEN r.fault
                            ELSE IF r.ret # 0 THEN "panic" ELSE "none"]
        ELSE [map |-> inserted, ret |-> NullEntry, fault |-> "none"]

\* map_insert: PANIC when an allocation fails; the entry of a key already
\* present is swapped for the new one and returned; otherwise a new node
\* becomes the head of its chain, and the map grows when that was a collision
\* at or above the threshold
map_insert(map, key, val, entry_ok, node_ok, calloc_ok) ==
    LET entry == [key |-> key, val |-> val]
        bucket_i == hashfn(key) % map.capacity
        head == map.buckets[bucket_i]
        curr == ChainFind(head, key, 1)
        inserted == [map EXCEPT !.buckets[bucket_i] = <<entry>> \o head,
                                !.length = @ + 1]
    IN  IF ~entry_ok THEN [map |-> map, ret |-> NullEntry, fault |-> "panic"]
        ELSE IF curr # 0
        THEN [map |-> [map EXCEPT !.buckets[bucket_i][curr] = entry],
              ret |-> head[curr], fault |-> "none"]
        ELSE IF ~node_ok THEN [map |-> map, ret |-> NullEntry, fault |-> "panic"]
        ELSE IF head # <<>> /\ inserted.length >= inserted.rehash_threshold
        THEN LET r == map_resize(inserted, inserted.capacity * 2, calloc_ok)
             IN  [map |-> r.map, ret |-> NullEntry,
                  fault |-> IF r.fault # "none" THEN r.fault
                            ELSE IF r.ret # 0 THEN "panic" ELSE "none"]
        ELSE [map |-> inserted, ret |-> NullEntry, fault |-> "none"]

\* the chain without its node at position i
ChainUnlink(chain, i) ==
    SubSeq(chain, 1, i - 1) \o SubSeq(chain, i + 1, Len(chain))

\* map_remove as it would be without the decrement of length
map_remove_no_decrement(map, key) ==
    LET bucket_i == hashfn(key) % map.capacity
        node == ChainFind(map.buckets[bucket_i], key, 1)
    IN  IF node = 0 THEN [map |-> map, ret |-> NullEntry]
        ELSE [map |-> [map EXCEPT !.buckets[bucket_i] = ChainUnlink(@, node)],
              ret |-> map.buckets[bucket_i][node]]

\* map_remove: the node is unlinked and freed, its entry returned
map_remove(map, key) ==
    LET bucket_i == hashfn(key) % map.capacity
        node == ChainFind(map.buckets[bucket_i], key, 1)
    IN  IF node = 0 THEN [map |-> map, ret |-> NullEntry]
        ELSE [map |-> [map EXCEPT
                         !.buckets[bucket_i] = ChainUnlink(@, node),
                         !.length = @ - 1],
              ret |-> map.buckets[bucket_i][node]]

\* map_get
map_get(map, key) ==
    LET bucket_i == hashfn(key) % map.capacity
        node == ChainFind(map.buckets[bucket_i], key, 1)
    IN  IF node = 0 THEN NullEntry ELSE map.buckets[bucket_i][node]

(* ---------------------------- rbtreeset.c ------------------------------ *)

\* node addresses: NIL is the address of the static sentinel, the others are
\* what malloc returns; NULL is the zero pointer the sentinel's links hold
NIL == 0
NULL == -1
TreeNodeIds == 1..MaxSetLen

\* element pointers: 2k - 1 and 2k point to two elements that compare equal;
\* 0 is the NULL element
SetElems == 1..(2 * MaxSetLen)
SetKeyOf(elem) == (elem + 1) \div 2

\* the set's cmpfn
set_cmpfn(a, b) == SetKeyOf(a) - SetKeyOf(b)

\* static tnode_t sentinel = {.color = BLACK}
sentinel ==
    [color |-> "BLACK", elem |-> 0, parent |-> NULL, left |-> NULL,
     right |-> NULL, live |-> TRUE]

\* memory of a tree node that is not allocated
NoTreeNode ==
    [color |-> "RED", elem |-> 0, parent |-> NULL, left |-> NULL,
     right |-> NULL, live |-> FALSE]

\* malloc(sizeof(tnode_t)): the lowest free address
NewTreeNode(nodes) ==
    CHOOSE a \in DOMAIN nodes \ {NIL} :
        ~nodes[a].live /\ \A b \in DOMAIN nodes \ {NIL} : b < a => nodes[b].live

\* set_create
set_create == [root |-> NIL, length |-> 0]

\* set_length
set_length(set) == set.length

\* rec_validate_rbtree: black_count is the number of black nodes above node,
\* path_black_count the count the first NIL leaf was reached with (-1 before);
\* ok is FALSE when one of its assertions fails
RECURSIVE rec_validate_rbtree(_, _, _, _)
rec_validate_rbtree(nodes, node, black_count, path_black_count) ==
    IF node = NIL
    THEN LET first == IF path_black_count = -1 THEN black_count
                      ELSE path_black_count
         IN  [path_black_count |-> first, ok |-> black_count = first]
    ELSE LET red_ok == nodes[node].color = "RED" =>
                          /\ nodes[nodes[node].left].color # "RED"
                          /\ nodes[nodes[node].right].color # "RED"
             count == IF nodes[node].color = "RED" THEN black_count
                      ELSE black_count + 1
             l == rec_validate_rbtree(nodes, nodes[node].left, count,
                                      path_black_count)
             r == rec_validate_rbtree(nodes, nodes[node].right, count,
                                      l.path_black_count)
         IN  [path_black_count |-> r.path_black_count,
              ok |-> red_ok /\ l.ok /\ r.ok]

\* validate_rbtree: TRUE when no assertion fails
validate_rbtree(set, nodes) ==
    IF set.root = NIL THEN TRUE
    ELSE /\ nodes[set.root].color = "BLACK"
         /\ rec_validate_rbtree(nodes, set.root, 0, -1).ok

\* Body of the value of v: a local variable that is assigned once and read
\* several times
ValueIn(v, Body(_)) == CHOOSE r \in {Body(x) : x \in {v}} : TRUE

\* rotate_left: rotate node u counter-clockwise; the assignments in the
\* order of the code
rotate_left(set, nodes, u) ==
    LET v == nodes[u].right
        vl == nodes[v].left
        up == nodes[u].parent
    IN  [set |-> IF up = NIL THEN [set EXCEPT !.root = v] ELSE set,
         nodes |-> [nodes EXCEPT
            ![u].right = vl,
            ![vl].parent = IF vl # NIL THEN u ELSE @,
            ![v].parent = up,
            ![up].left = IF up # NIL /\ u = nodes[up].left THEN v ELSE @,
            ![up].right = IF up # NIL /\ u # nodes[up].left THEN v ELSE @,
            ![v].left = u,
            ![u].parent = v]]

\* rotate_right: rotate node u clockwise
rotate_right(set, nodes, u) ==
    LET v == nodes[u].left
        vr == nodes[v].right
        up == nodes[u].parent
    IN  [set |-> IF up = NIL THEN [set EXCEPT !.root = v] ELSE set,
         nodes |-> [nodes EXCEPT
            ![u].left = vr,
            ![vr].parent = IF vr # NIL THEN u ELSE @,
            ![v].parent = up,
            ![up].right = IF up # NIL /\ u = nodes[up].right THEN v ELSE @,
            ![up].left = IF up # NIL /\ u # nodes[up].right THEN v ELSE @,
            ![v].right = u,
            ![u].parent = v]]

\* the black-uncle branch of post_insert_balance: the rotation of case 2 when
\* curr is an inner grandchild, the rotation of case 3, the colors after them
BalanceRotate(set, nodes, curr, par, gp, par_is_leftchild) ==
    LET inner == IF par_is_leftchild THEN curr = nodes[par].right
                 ELSE curr = nodes[par].left
    IN  ValueIn(IF ~inner THEN [set |-> set, nodes |-> nodes]
                ELSE IF par_is_leftchild THEN rotate_left(set, nodes, par)
                ELSE rotate_right(set, nodes, par),
          LAMBDA r1 :
            LET curr1 == IF inner THEN par ELSE curr
                par1 == IF inner THEN r1.nodes[curr1].parent ELSE par
            IN  ValueIn(IF par_is_leftchild
                        THEN rotate_right(r1.set, r1.nodes, gp)
                        ELSE rotate_left(r1.set, r1.nodes, gp),
                  LAMBDA r2 :
                    [set |-> r2.set,
                     nodes |-> [r2.nodes EXCEPT ![par1].color = "BLACK",
                                                ![gp].color = "RED"]]))

\* the while loop of post_insert_balance
RECURSIVE BalanceLoop(_, _, _)
BalanceLoop(set, nodes, curr) ==
    IF nodes[nodes[curr].parent].color # "RED"
    THEN [set |-> set, nodes |-> nodes]
    ELSE LET par == nodes[curr].parent
             gp == nodes[par].parent
             par_is_leftchild == nodes[gp].left = par
             unc == IF par_is_leftchild THEN nodes[gp].right ELSE nodes[gp].left
         IN  IF nodes[unc].color = "RED"
             THEN ValueIn(<<[nodes EXCEPT ![unc].color = "BLACK",
                                          ![par].color = "BLACK",
                                          ![gp].color = "RED"], gp>>,
                          LAMBDA up : BalanceLoop(set, up[1], up[2]))
             ELSE BalanceRotate(set, nodes, curr, par, gp, par_is_leftchild)

\* post_insert_balance as it would be if it did not make the root black
post_insert_balance_red_root(set, nodes, added_node) ==
    BalanceLoop(set, nodes, added_node)

\* post_insert_balance: the loop, then the root is made black
post_insert_balance(set, nodes, added_node) ==
    ValueIn(BalanceLoop(set, nodes, added_node),
            LAMBDA r : [set |-> r.set,
                        nodes |-> [r.nodes EXCEPT ![r.set.root].color = "BLACK"]])

\* the tail of set_insert: a red node for elem is linked under curr, the tree
\* is rebalanced and validated
InsertUnder(set, nodes, elem, curr, cmp) ==
    ValueIn(NewTreeNode(nodes),
      LAMBDA node :
        ValueIn([nodes EXCEPT
                    ![node] = [color |-> "RED", elem |-> elem, parent |-> curr,
                               left |-> NIL, right |-> NIL, live |-> TRUE],
                    ![curr].right = IF cmp > 0 THEN node ELSE @,
                    ![curr].left = IF cmp > 0 THEN @ ELSE node],
          LAMBDA linked :
            ValueIn(post_insert_balance([set EXCEPT !.length = @ + 1],
                                        linked, node),
              LAMBDA b :
                [set |-> b.set, nodes |-> b.nodes, ret |-> 0,
                 fault |-> IF validate_rbtree(b.set, b.nodes) THEN "none"
                           ELSE "assert"])))

\* the traversal loop of set_insert: the node it stops at, and the last cmp
RECURSIVE InsertDescend(_, _, _)
InsertDescend(nodes, curr, elem) ==
    LET cmp == set_cmpfn(elem, nodes[curr].elem)
    IN  IF cmp > 0
        THEN IF nodes[curr].right = NIL THEN [curr |-> curr, cmp |-> cmp]
             ELSE InsertDescend(nodes, nodes[curr].right, elem)
        ELSE IF cmp < 0
        THEN IF nodes[curr].left = NIL THEN [curr |-> curr, cmp |-> cmp]
             ELSE InsertDescend(nodes, nodes[curr].left, elem)
        ELSE [curr |-> curr, cmp |-> 0]

\* set_insert as it would be if it left the stored element in place
set_insert_keeps_old(set, nodes, elem, malloc_ok) ==
    IF set.root = NIL
    THEN IF ~malloc_ok
         THEN [set |-> set, nodes |-> nodes, ret |-> 0, fault |-> "panic"]
         ELSE LET root == NewTreeNode(nodes)
              IN  [set |-> [root |-> root, length |-> set.length + 1],
                   nodes |-> [nodes EXCEPT ![root] =
                       [color |-> "BLACK", elem |-> elem, parent |-> NIL,
                        left |-> NIL, right |-> NIL, live |-> TRUE]],
                   ret |-> 0, fault |-> "none"]
    ELSE LET d == InsertDescend(nodes, set.root, elem)
         IN  IF d.cmp = 0
             THEN [set |-> set, nodes |-> nodes, ret |-> nodes[d.curr].elem,
                   fault |-> "none"]
             ELSE IF ~malloc_ok
             THEN [set |-> set, nodes |-> nodes, ret |-> 0, fault |-> "panic"]
             ELSE InsertUnder(set, nodes, elem, d.curr, d.cmp)

\* set_insert: PANIC when malloc fails; an empty tree gets a black root; an
\* equal element is swapped for elem and returned; otherwise a red node is
\* linked under the node the traversal stopped at, the tree is rebalanced and
\* validated
set_insert(set, nodes, elem, malloc_ok) ==
    IF set.root = NIL
    THEN IF ~malloc_ok
         THEN [set |-> set, nodes |-> nodes, ret |-> 0, fault |-> "panic"]
         ELSE LET root == NewTreeNode(nodes)
              IN  [set |-> [root |-> root, length |-> set.length + 1],
                   nodes |-> [nodes EXCEPT ![root] =
                       [color |-> "BLACK", elem |-> elem, parent |-> NIL,
                        left |-> NIL, right |-> NIL, live |-> TRUE]],
                   ret |-> 0, fault |-> "none"]
    ELSE LET d == InsertDescend(nodes, set.root, elem)
         IN  IF d.cmp = 0
             THEN [set |-> set, nodes |-> [nodes EXCEPT ![d.curr].elem = elem],
                   ret |-> nodes[d.curr].elem, fault |-> "none"]
             ELSE IF ~malloc_ok
             THEN [set |-> set, nodes |-> nodes, ret |-> 0, fault |-> "panic"]
             ELSE InsertUnder(set, nodes, elem, d.curr, d.cmp)

\* node_search: the node holding an element equal to elem, or NIL
RECURSIVE SearchFrom(_, _, _)
SearchFrom(nodes, curr, elem) ==
    IF curr = NIL THEN NIL
    ELSE LET direction == set_cmpfn(elem, nodes[curr].elem)
         IN  IF direction > 0 THEN SearchFrom(nodes, nodes[curr].right, elem)
             ELSE IF direction < 0 THEN SearchFrom(nodes, nodes[curr].left, elem)
             ELSE curr

node_search(set, nodes, elem) == SearchFrom(nodes, set.root, elem)

\* set_get: the elem field of the node found; that of the sentinel is NULL
set_get(set, nodes, elem) == nodes[node_search(set, nodes, elem)].elem

\* the inner loop of next_node_inorder: from pre rightwards to the in-order
\* predecessor of next, or to the node whose right link already leads to next
RECURSIVE FindPredecessor(_, _, _)
FindPredecessor(nodes, pre, next) ==
    IF nodes[pre].right # NIL /\ nodes[pre].right # next
    THEN FindPredecessor(nodes, nodes[pre].right, next)
    ELSE pre

\* the outer loop of next_node_inorder as it would be if it visited a node
\* with a left subtree at once instead of walking that subtree first
MorrisLoopSkipsLeft(nodes, head, next) ==
    IF next = NIL THEN [node |-> NIL, head |-> head, nodes |-> nodes]
    ELSE [node |-> next, head |-> nodes[next].right, nodes |-> nodes]

\* the outer loop of next_node_inorder: a node without a left subtree is
\* visited; otherwise its predecessor is linked to it and the walk goes left,
\* or, when that link is there already, the link is taken out and the node is
\* visited. The node visited, the head after it, and the nodes
RECURSIVE MorrisLoop(_, _, _)
MorrisLoop(nodes, head, next) ==
    IF next = NIL THEN [node |-> NIL, head |-> head, nodes |-> nodes]
    ELSE IF nodes[next].left = NIL
    THEN [node |-> next, head |-> nodes[next].right, nodes |-> nodes]
    ELSE ValueIn(FindPredecessor(nodes, nodes[next].left, next),
      LAMBDA pre :
        IF nodes[pre].right = NIL
        THEN ValueIn([nodes EXCEPT ![pre].right = next],
               LAMBDA linked : MorrisLoop(linked, head, linked[next].left))
        ELSE ValueIn([nodes EXCEPT ![pre].right = NIL],
               LAMBDA restored :
                 [node |-> next, head |-> restored[next].right,
                  nodes |-> restored]))

\* next_node_inorder
next_node_inorder(iter, nodes) == MorrisLoop(nodes, iter.head, iter.head)

\* set_createiter: the iterator stands on the root; NULL when malloc fails
set_createiter(set, malloc_ok) ==
    [live |-> malloc_ok, head |-> IF malloc_ok THEN set.root ELSE NIL]

\* set_hasnext
set_hasnext(iter) == IF iter.head = NIL THEN 0 ELSE 1

\* set_next: the elem of the node next_node_inorder returns; that of the
\* sentinel is NULL
set_next(iter, nodes) ==
    ValueIn(next_node_inorder(iter, nodes),
      LAMBDA r : [iter |-> [iter EXCEPT !.head = r.head], nodes |-> r.nodes,
                  ret |-> r.nodes[r.node].elem])

\* the loop of set_destroyiter: the traversal is finished
RECURSIVE FinishTraversal(_, _)
FinishTraversal(iter, nodes) ==
    IF set_hasnext(iter) = 0 THEN nodes
    ELSE ValueIn(next_node_inorder(iter, nodes),
           LAMBDA r : FinishTraversal([iter EXCEPT !.head = r.head], r.nodes))

\* set_destroyiter: the nodes after the traversal was finished; the iterator
\* is freed
set_destroyiter(iter, nodes) == FinishTraversal(iter, nodes)

\* rec_set_copy: the subtree of orig_node is copied node by node, color and
\* elem kept, under parent; left and right are assigned when the copies of
\* the subtrees return
RECURSIVE rec_set_copy(_, _, _)
rec_set_copy(nodes, orig_node, parent) ==
    IF orig_node = NIL THEN [node |-> NIL, nodes |-> nodes]
    ELSE ValueIn(NewTreeNode(nodes),
      LAMBDA new_node :
        ValueIn(rec_set_copy(
                    [nodes EXCEPT ![new_node] =
                        [color |-> nodes[orig_node].color,
                         elem |-> nodes[orig_node].elem, parent |-> parent,
                         left |-> NULL, right |-> NULL, live |-> TRUE]],
                    nodes[orig_node].left, new_node),
          LAMBDA l :
            ValueIn(rec_set_copy([l.nodes EXCEPT ![new_node].left = l.node],
                                 l.nodes[orig_node].right, new_node),
              LAMBDA r :
                [node |-> new_node,
                 nodes |-> [r.nodes EXCEPT ![new_node].right = r.node]])))

\* set_copy as it would be without the assignment of length
set_copy_no_length(set, nodes, create_ok) ==
    IF ~create_ok
    THEN [c |-> [null |-> TRUE, root |-> NIL, length |-> 0], nodes |-> nodes]
    ELSE ValueIn(rec_set_copy(nodes, set.root, NIL),
           LAMBDA r : [c |-> [null |-> FALSE, root |-> r.node, length |-> 0],
                       nodes |-> r.nodes])

\* set_copy: NULL when set_create fails
set_copy(set, nodes, create_ok) ==
    IF ~create_ok
    THEN [c |-> [null |-> TRUE, root |-> NIL, length |-> 0], nodes |-> nodes]
    ELSE ValueIn(rec_set_copy(nodes, set.root, NIL),
           LAMBDA r : [c |-> [null |-> FALSE, root |-> r.node,
                              length |-> set.length],
                       nodes |-> r.nodes])

\* the call set_insert(target, elem) inside the recursions below: the set
\* after it, and the first assertion that failed so far
InsertInto(target, elem) ==
    ValueIn(set_insert([root |-> target.set.root, length |-> target.set.length],
                       target.nodes, elem, TRUE),
      LAMBDA ins :
        [set |-> ins.set, nodes |-> ins.nodes,
         fault |-> IF target.fault # "none" THEN target.fault ELSE ins.fault])

\* rec_set_merge: the elements of the subtree of root are inserted in target,
\* right subtree, left subtree, then root
RECURSIVE rec_set_merge(_, _)
rec_set_merge(target, root) ==
    IF root = NIL THEN target
    ELSE ValueIn(rec_set_merge(target, target.nodes[root].right),
      LAMBDA t1 :
        ValueIn(rec_set_merge(t1, t1.nodes[root].left),
          LAMBDA t2 : InsertInto(t2, t2.nodes[root].elem)))

\* rec_set_intersection: post-order over a, the elements set_get finds in b
\* are inserted in c
RECURSIVE rec_set_intersection(_, _, _)
rec_set_intersection(c, b, root_a) ==
    IF root_a = NIL THEN c
    ELSE ValueIn(rec_set_intersection(c, b, c.nodes[root_a].left),
      LAMBDA c1 :
        ValueIn(rec_set_intersection(c1, b, c1.nodes[root_a].right),
          LAMBDA c2 :
            IF set_get(b, c2.nodes, c2.nodes[root_a].elem) # 0
            THEN InsertInto(c2, c2.nodes[root_a].elem)
            ELSE c2))

\* rec_set_difference: post-order over a, the elements set_get does not find
\* in b are inserted in c
RECURSIVE rec_set_difference(_, _, _)
rec_set_difference(c, b, root_a) ==
    IF root_a = NIL THEN c
    ELSE ValueIn(rec_set_difference(c, b, c.nodes[root_a].left),
      LAMBDA c1 :
        ValueIn(rec_set_difference(c1, b, c1.nodes[root_a].right),
          LAMBDA c2 :
            IF set_get(b, c2.nodes, c2.nodes[root_a].elem) = 0
            THEN InsertInto(c2, c2.nodes[root_a].elem)
            ELSE c2))

\* what a set operation returns: the new set c (NULL when set_create failed),
\* the nodes after it, and how the program ended when it did: malloc of a node
\* PANICs, so with malloc_ok false the first node the operation needs ends it
SetOpResult(built, nodes, malloc_ok) ==
    IF ~malloc_ok /\ built.nodes # nodes
    THEN [c |-> [null |-> TRUE, root |-> NIL, length |-> 0], nodes |-> nodes,
          fault |-> "panic"]
    ELSE [c |-> [null |-> FALSE, root |-> built.set.root,
                 length |-> built.set.length],
          nodes |-> built.nodes, fault |-> built.fault]

\* the result of an operation whose set_create failed
NoSet(nodes) ==
    [c |-> [null |-> TRUE, root |-> NIL, length |-> 0], nodes |-> nodes,
     fault |-> "none"]

\* set_union: the longer set is copied and the other one merged into the
\* copy; same tells whether a and b are the same set
set_union(a, b, same, nodes, create_ok, malloc_ok) ==
    LET swap == a.length < b.length
        a1 == IF swap THEN b ELSE a
        b1 == IF swap THEN a ELSE b
    IN  ValueIn(set_copy(a1, nodes, create_ok),
          LAMBDA cpy :
            IF cpy.c.null THEN NoSet(nodes)
            ELSE LET c == [set |-> [root |-> cpy.c.root, length |-> cpy.c.length],
                           nodes |-> cpy.nodes, fault |-> "none"]
                 IN  SetOpResult(IF same THEN c ELSE rec_set_merge(c, b1.root),
                                 nodes, malloc_ok))

\* set_intersection: a copy when a and b are the same set; otherwise the
\* elements of the longer set that set_get finds in the other
set_intersection(a, b, same, nodes, create_ok, malloc_ok) ==
    IF same
    THEN ValueIn(set_copy(a, nodes, create_ok),
           LAMBDA cpy :
             IF cpy.c.null THEN NoSet(nodes)
             ELSE SetOpResult([set |-> [root |-> cpy.c.root,
                                        length |-> cpy.c.length],
                               nodes |-> cpy.nodes, fault |-> "none"],
                              nodes, malloc_ok))
    ELSE IF ~create_ok THEN NoSet(nodes)
    ELSE LET swap == a.length < b.length
             a1 == IF swap THEN b ELSE a
             b1 == IF swap THEN a ELSE b
         IN  SetOpResult(
                 rec_set_intersection(
                     [set |-> set_create, nodes |-> nodes, fault |-> "none"],
                     b1, a1.root),
                 nodes, malloc_ok)

\* set_difference: the empty set when a and b are the same set; otherwise the
\* elements of a that set_get does not find in b
set_difference(a, b, same, nodes, create_ok, malloc_ok) ==
    IF ~create_ok THEN NoSet(nodes)
    ELSE LET c == [set |-> set_create, nodes |-> nodes, fault |-> "none"]
         IN  SetOpResult(IF same THEN c ELSE rec_set_difference(c, b, a.root),
                         nodes, malloc_ok)

\* rec_postorder_destroy without an elem_freefn: the nodes of the subtree are
\* freed
RECURSIVE rec_postorder_destroy(_, _)
rec_postorder_destroy(nodes, node) ==
    IF node = NIL THEN nodes
    ELSE ValueIn(rec_postorder_destroy(nodes, nodes[node].left),
      LAMBDA n1 :
        ValueIn(rec_postorder_destroy(n1, n1[node].right),
          LAMBDA n2 : [n2 EXCEPT ![node] = NoTreeNode]))

(* ----------------------------- tokenize.c ------------------------------ *)

\* characters are their codes: 'a', 'B', ' ', '(' and '\n'
Chars == {97, 66, 32, 40, 10}

\* the strings and file contents handed to the tokenizer; none holds a NUL
Strings == SeqUpTo(Chars, MaxStrLen)

\* #define TOKEN_SIZE_MAX 1024
TOKEN_SIZE_MAX == 1024

\* <ctype.h> in the C locale
isspace(c) == c = 32 \/ c \in 9..13
isprint(c) == c \in 32..126
isalnum(c) == c \in 48..57 \/ c \in 65..90 \/ c \in 97..122
isascii(c) == c \in 0..127
tolower(c) == IF c \in 65..90 THEN c + 32 ELSE c

\* common.c and main.c: the character classes the callers pass
is_newline(c) == c = 10
is_ascii_alnum(c) == isascii(c) /\ isalnum(c)
is_space_or_par(c) == c = 40 \/ c = 41 \/ isspace(c)
is_operator_part(c) == c \in {40, 41, 124, 38, 33}
is_valid_query_char(c) == is_operator_part(c) \/ is_ascii_alnum(c)

\* a call through a function pointer; "NULL" is the NULL pointer
CallPredicate(fn, c) ==
    CASE fn = "isspace" -> isspace(c)
      [] fn = "isprint" -> isprint(c)
      [] fn = "is_newline" -> is_newline(c)
      [] fn = "is_ascii_alnum" -> is_ascii_alnum(c)
      [] fn = "is_space_or_par" -> is_space_or_par(c)
      [] fn = "is_valid_query_char" -> is_valid_query_char(c)

\* transformfn ? transformfn(c) : c
CallTransform(fn, c) == IF fn = "NULL" THEN c ELSE tolower(c)

\* the delimitfn, filterfn and transformfn of the three callers: the query
\* of main.c:220, the file of main.c:373 and the piped lines of main.c:673
CallSites ==
    { [delimitfn |-> "is_space_or_par", filterfn |-> "is_valid_query_char",
       transformfn |-> "tolower"],
      [delimitfn |-> "isspace", filterfn |-> "is_ascii_alnum",
       transformfn |-> "tolower"],
      [delimitfn |-> "is_newline", filterfn |-> "isprint",
       transformfn |-> "NULL"] }

\* the min_token_len values
MinTokenLens == {1, 2}

\* the state of tokenize_string on entry: the list, the token built up in
\* base (head is base + offset, offset its length), status, how many
\* allocations were asked for, how many strdup copies were made and how many
\* freed, and whether an append has failed
TokenizeEntry(list) ==
    [list |-> list, tok |-> <<>>, status |-> 0, allocs |-> 0, dup |-> 0,
     freed |-> 0, failed |-> FALSE]

\* append_token_dup: the token is terminated at head; if it is long enough it
\* is copied with strdup and the copy added last. The allocation numbered
\* failing fails: a failed strdup returns -1, a failed list_addlast frees the
\* copy and returns -1. The return value is the caller's new status
append_token_dup(t, min_token_len, failing) ==
    IF Len(t.tok) >= min_token_len
    THEN IF t.allocs + 1 = failing
         THEN [t EXCEPT !.status = -1, !.allocs = @ + 1, !.failed = TRUE]
         ELSE IF t.allocs + 2 = failing
         THEN [t EXCEPT !.status = -1, !.allocs = @ + 2, !.failed = TRUE,
                        !.dup = @ + 1, !.freed = @ + 1]
         ELSE [t EXCEPT !.status = 0, !.allocs = @ + 2, !.dup = @ + 1,
                        !.list = Append(@, t.tok)]
    ELSE [t EXCEPT !.status = 0]

\* tokenize_string, lines 79-100: a character that passes the filter is
\* transformed and written at head; a delimiter that passed is appended as a
\* token of its own, and the status of that append replaces the status of the
\* append of line 72; a token that reached offset_lim is dropped
TokenizeKeep(t, c, is_delimiter, min_token_len, site, failing) ==
    IF site.filterfn = "NULL" \/ CallPredicate(site.filterfn, c)
    THEN ValueIn([t EXCEPT !.tok = Append(@, CallTransform(site.transformfn, c))],
           LAMBDA w :
             IF is_delimiter
             THEN [append_token_dup(w, min_token_len, failing)
                       EXCEPT !.tok = <<>>]
             ELSE IF Len(w.tok) >= TOKEN_SIZE_MAX - 2
             THEN [w EXCEPT !.tok = <<>>]
             ELSE w)
    ELSE t

\* the for loop of tokenize_string from character i of str on: it runs while
\* status is 0; at the NUL the token built up is appended and the loop left;
\* at a delimiter the token is appended and base reset; then the character
\* is kept or filtered out
RECURSIVE TokenizeLoop(_, _, _, _, _, _)
TokenizeLoop(t, str, i, min_token_len, site, failing) ==
    IF t.status # 0 THEN t
    ELSE IF i > Len(str)
    THEN append_token_dup(t, min_token_len, failing)
    ELSE LET is_delimiter == CallPredicate(site.delimitfn, str[i])
         IN  ValueIn(IF is_delimiter
                     THEN [append_token_dup(t, min_token_len, failing)
                               EXCEPT !.tok = <<>>]
                     ELSE t,
               LAMBDA split :
                 ValueIn(TokenizeKeep(split, str[i], is_delimiter,
                                      min_token_len, site, failing),
                   LAMBDA kept :
                     TokenizeLoop(kept, str, i + 1, min_token_len, site,
                                  failing)))

\* tokenize_string, lines 104-106: on error the tokens added since entry are
\* popped and freed
RECURSIVE TokenizeRevert(_, _)
TokenizeRevert(t, list_len_before) ==
    IF t.status < 0 /\ Len(t.list) > list_len_before
    THEN TokenizeRevert([t EXCEPT !.list = SubSeq(@, 1, Len(@) - 1),
                                  !.freed = @ + 1],
                        list_len_before)
    ELSE t

\* tokenize_string: the list, the status returned, and the bookkeeping
tokenize_string(str, list, min_token_len, site, failing) ==
    TokenizeRevert(
        TokenizeLoop(TokenizeEntry(list), str, 1, min_token_len, site, failing),
        Len(list))

\* tokenize_file: -1 when fsize fails; 0 for a file that is empty or shorter
\* than min_token_len; -1 when malloc fails; -2 when the read sets errno;
\* otherwise content[read_bytes - 1] = '\0' and tokenize_string on content
tokenize_file(content, list, min_token_len, site, env, failing) ==
    IF env = "fsize" THEN [TokenizeEntry(list) EXCEPT !.status = -1]
    ELSE IF Len(content) = 0 \/ Len(content) < min_token_len
    THEN TokenizeEntry(list)
    ELSE IF env = "malloc" THEN [TokenizeEntry(list) EXCEPT !.status = -1]
    ELSE IF env = "read" THEN [TokenizeEntry(list) EXCEPT !.status = -2]
    ELSE tokenize_string(SubSeq(content, 1, Len(content) - 1), list,
                         min_token_len, site, failing)

(* ----------------------------- index.c -------------------------------- *)

\* index_create: the struct is allocated and none of its fields is set
index_create ==
    [terms |-> Uninit, doc_names |-> Uninit,
     number_of_docs |-> Uninit, number_of_terms |-> Uninit]

\* print_list_of_strings: walks the list with an iterator of its own and
\* destroys it (or returns at once when the iterator cannot be allocated);
\* the list is left as it was
print_list_of_strings(tokens, malloc_ok) ==
    LET tokens_iter == list_createiter(tokens, malloc_ok)
    IN  IF tokens_iter.null THEN tokens ELSE tokens_iter.list

\* index_document: creates an iterator on the terms and returns 0; the index,
\* doc_name and the terms are not touched and the iterator is not destroyed
index_document(idx, doc_name, terms, malloc_ok) ==
    LET newIterator == list_createiter(terms, malloc_ok)
    IN  [index |-> idx,
         leaked |-> IF newIterator.null THEN 0 ELSE 1,
         freed |-> 0,
         status |-> 0]

\* index_destroy: nothing is freed, not the struct, not what index_document
\* was given, not the iterators it created
index_destroy(idx) ==
    [index_freed |-> FALSE, allocs_freed |-> 0, iters_freed |-> 0]

\* index_query as it would be if it created the index's map and set on first use
index_query_creates_sets(idx, tokens, errmsg, malloc_ok) ==
    [index |-> [idx EXCEPT !.terms = "map", !.doc_names = "set"],
     kept |-> 1..Len(tokens),
     freed |-> {},
     list_destroyed |-> FALSE,
     errmsg |-> errmsg,
     results |-> NullList]

\* index_query as it would be if it popped the first token and did not free it
index_query_drops_token(idx, tokens, errmsg, malloc_ok) ==
    [index |-> idx,
     kept |-> 2..Len(tokens),
     freed |-> {},
     list_destroyed |-> FALSE,
     errmsg |-> errmsg,
     results |-> NullList]

\* index_query: prints the tokens and returns NULL; errmsg is not written.
\* kept: the positions of the tokens still in the list on return; freed: the
\* positions of the tokens it freed; list_destroyed: it destroyed the list
index_query(idx, tokens, errmsg, malloc_ok) ==
    [index |-> idx,
     kept |-> 1..Len(print_list_of_strings(tokens, malloc_ok)),
     freed |-> {},
     list_destroyed |-> FALSE,
     errmsg |-> errmsg,
     results |-> NullList]

\* index_stat: both counts are set to 0
index_stat(idx) ==
    [n_docs |-> 0, n_terms |-> 0]

(* ------------------------------ main.c -------------------------------- *)

\* the branch execute_query takes on what index_query returned
execute_query_report(res, errmsg) ==
    IF ~res.null THEN "results"
    ELSE IF errmsg # "" THEN "invalid_query"
    ELSE "index_error"

\* the terms of a term list
TermsOf(terms) == {terms[i] : i \in 1..Len(terms)}

\* the tokens of a list that are at the kept positions, in order
RECURSIVE KeptTokens(_, _, _)
KeptTokens(tokens, kept, i) ==
    IF i > Len(tokens) THEN <<>>
    ELSE (IF i \in kept THEN <<tokens[i]>> ELSE <<>>) \o KeptTokens(tokens, kept, i + 1)

\* list_destroy(tokens, free) in run_interpreter after the query: how often
\* each token of the query has been freed once it has run
FreesAfterListDestroy(tokens, r) ==
    [i \in 1..Len(tokens) |->
        (IF i \in r.freed THEN 1 ELSE 0) + (IF i \in r.kept THEN 1 ELSE 0)]

IndexInit ==
    /\ index = index_create
    /\ live_iters = 0
    /\ live_allocs = 0
    /\ index_live = TRUE
    /\ n_calls = 0
    /\ given_docs = {}
    /\ given_terms = {}
    /\ status = Uninit
    /\ tokens_in = <<>>
    /\ query_tokens = <<>>
    /\ results = NullList
    /\ errmsg_buf = Uninit
    /\ report = "none"
    /\ token_frees = <<>>
    /\ list_frees = 0
    /\ repeated = FALSE
    /\ n_docs = Uninit
    /\ n_terms = Uninit
    /\ op = "create"

\* build_index: one file is tokenized and handed to index_document
IndexDocument ==
    /\ op # "destroy"
    /\ n_calls < MaxDocs
    /\ \E doc_name \in DocNames, terms \in TermLists, malloc_ok \in BOOLEAN :
          LET r == index_document(index, doc_name, terms, malloc_ok)
          IN  /\ index' = r.index
              /\ live_iters' = live_iters + r.leaked
              /\ live_allocs' = live_allocs + (2 + Len(terms)) - r.freed
              /\ status' = r.status
              /\ n_calls' = IF r.status = 0 THEN n_calls + 1 ELSE n_calls
              /\ given_docs' = given_docs \cup {doc_name}
              /\ given_terms' =
                    given_terms \cup {<<doc_name, t>> : t \in TermsOf(terms)}
    /\ tokens_in' = <<>>
    /\ query_tokens' = <<>>
    /\ results' = NullList
    /\ errmsg_buf' = Uninit
    /\ report' = "none"
    /\ token_frees' = <<>>
    /\ list_frees' = 0
    /\ repeated' = FALSE
    /\ n_docs' = Uninit
    /\ n_terms' = Uninit
    /\ op' = "document"
    /\ UNCHANGED index_live
    /\ UNCHANGED not_index_vars

\* execute_query: the error buffer is zeroed, index_query runs, and the
\* outcome is reported
IndexQuery ==
    /\ op # "destroy"
    /\ \E tokens \in Queries, malloc_ok \in BOOLEAN :
          LET r == index_query(index, tokens, "", malloc_ok)
          IN  /\ index' = r.index
              /\ tokens_in' = tokens
              /\ query_tokens' = KeptTokens(tokens, r.kept, 1)
              /\ token_frees' = FreesAfterListDestroy(tokens, r)
              /\ list_frees' = (IF r.list_destroyed THEN 1 ELSE 0) + 1
              /\ errmsg_buf' = r.errmsg
              /\ results' = r.results
              /\ report' = execute_query_report(r.results, r.errmsg)
              /\ repeated' = (op = "query" /\ tokens = tokens_in)
    /\ status' = Uninit
    /\ n_docs' = Uninit
    /\ n_terms' = Uninit
    /\ op' = "query"
    /\ UNCHANGED <<live_iters, live_allocs, index_live, n_calls, given_docs,
                   given_terms>>
    /\ UNCHANGED not_index_vars

\* run_interpreter, the stat command: index_stat fills n_docs and n_terms
IndexStat ==
    /\ op # "destroy"
    /\ LET r == index_stat(index)
       IN  /\ n_docs' = r.n_docs
           /\ n_terms' = r.n_terms
    /\ status' = Uninit
    /\ tokens_in' = <<>>
    /\ query_tokens' = <<>>
    /\ results' = NullList
    /\ errmsg_buf' = Uninit
    /\ report' = "none"
    /\ token_frees' = <<>>
    /\ list_frees' = 0
    /\ repeated' = FALSE
    /\ op' = "stat"
    /\ UNCHANGED <<index, live_iters, live_allocs, index_live, n_calls,
                   given_docs, given_terms>>
    /\ UNCHANGED not_index_vars

\* main, cleanup: index_destroy is the last call on the index
IndexDestroy ==
    /\ op # "destroy"
    /\ LET r == index_destroy(index)
       IN  /\ index_live' = (index_live /\ ~r.index_freed)
           /\ live_allocs' = live_allocs - r.allocs_freed
           /\ live_iters' = live_iters - r.iters_freed
    /\ status' = Uninit
    /\ tokens_in' = <<>>
    /\ query_tokens' = <<>>
    /\ results' = NullList
    /\ errmsg_buf' = Uninit
    /\ report' = "none"
    /\ token_frees' = <<>>
    /\ list_frees' = 0
    /\ repeated' = FALSE
    /\ n_docs' = Uninit
    /\ n_terms' = Uninit
    /\ op' = "destroy"
    /\ UNCHANGED <<index, n_calls, given_docs, given_terms>>
    /\ UNCHANGED not_index_vars

(* ------------------------- callers of list.h --------------------------- *)

\* the items from node rightwards, in order
RECURSIVE ItemsFrom(_, _)
ItemsFrom(nodes, node) ==
    IF node = 0 THEN <<>>
    ELSE <<nodes[node].item>> \o ItemsFrom(nodes, nodes[node].right)

\* the node addresses from node rightwards, in order
RECURSIVE NodesFrom(_, _)
NodesFrom(nodes, node) ==
    IF node = 0 THEN <<>>
    ELSE <<node>> \o NodesFrom(nodes, nodes[node].right)

\* the items of the list, left to right
Walk(list, nodes) == ItemsFrom(nodes, list.leftmost)

\* the sequence without its first item that compares equal to item
RECURSIVE SeqRemove(_, _)
SeqRemove(s, item) ==
    IF s = <<>> THEN <<>>
    ELSE IF cmpfn(item, Head(s)) = 0 THEN Tail(s)
    ELSE <<Head(s)>> \o SeqRemove(Tail(s), item)

\* the first item of the sequence that compares equal to item, or NULL
RECURSIVE SeqFind(_, _)
SeqFind(s, item) ==
    IF s = <<>> THEN 0
    ELSE IF cmpfn(item, Head(s)) = 0 THEN Head(s)
    ELSE SeqFind(Tail(s), item)

ListInit ==
    /\ dll = list_create
    /\ lnodes = [n \in NodeIds |-> FreedNode]
    /\ labs = <<>>
    /\ labsret = 0
    /\ liter = [live |-> FALSE, node |-> 0]
    /\ lyield = <<>>
    /\ lret = 0
    /\ lfault = "none"
    /\ lop = "create"

\* a caller adds an item at the left end
ListAddFirst ==
    /\ lfault = "none" /\ ~liter.live
    /\ dll.length < MaxListLen
    /\ \E item \in Items, malloc_ok \in BOOLEAN :
          LET r == list_addfirst(dll, lnodes, item, malloc_ok)
          IN  /\ dll' = r.list
              /\ lnodes' = r.nodes
              /\ lret' = r.ret
              /\ labs' = IF malloc_ok THEN <<item>> \o labs ELSE labs
              /\ labsret' = IF malloc_ok THEN 0 ELSE -1
    /\ lop' = "addfirst"
    /\ UNCHANGED <<liter, lyield, lfault>>
    /\ UNCHANGED not_list_vars

\* a caller adds an item at the right end
ListAddLast ==
    /\ lfault = "none" /\ ~liter.live
    /\ dll.length < MaxListLen
    /\ \E item \in Items, malloc_ok \in BOOLEAN :
          LET r == list_addlast(dll, lnodes, item, malloc_ok)
          IN  /\ dll' = r.list
              /\ lnodes' = r.nodes
              /\ lret' = r.ret
              /\ labs' = IF malloc_ok THEN labs \o <<item>> ELSE labs
              /\ labsret' = IF malloc_ok THEN 0 ELSE -1
    /\ lop' = "addlast"
    /\ UNCHANGED <<liter, lyield, lfault>>
    /\ UNCHANGED not_list_vars

\* a caller pops the left end
ListPopFirst ==
    /\ lfault = "none" /\ ~liter.live
    /\ LET r == list_popfirst(dll, lnodes)
       IN  /\ dll' = r.list
           /\ lnodes' = r.nodes
           /\ lret' = r.ret
           /\ lfault' = r.fault
    /\ labs' = IF labs = <<>> THEN labs ELSE Tail(labs)
    /\ labsret' = IF labs = <<>> THEN 0 ELSE Head(labs)
    /\ lop' = "popfirst"
    /\ UNCHANGED <<liter, lyield>>
    /\ UNCHANGED not_list_vars

\* a caller pops the right end
ListPopLast ==
    /\ lfault = "none" /\ ~liter.live
    /\ LET r == list_poplast(dll, lnodes)
       IN  /\ dll' = r.list
           /\ lnodes' = r.nodes
           /\ lret' = r.ret
           /\ lfault' = r.fault
    /\ labs' = IF labs = <<>> THEN labs ELSE SubSeq(labs, 1, Len(labs) - 1)
    /\ labsret' = IF labs = <<>> THEN 0 ELSE labs[Len(labs)]
    /\ lop' = "poplast"
    /\ UNCHANGED <<liter, lyield>>
    /\ UNCHANGED not_list_vars

\* a caller removes an item
ListRemove ==
    /\ lfault = "none" /\ ~liter.live
    /\ \E item \in Items :
          LET r == list_remove(dll, lnodes, item)
          IN  /\ dll' = r.list
              /\ lnodes' = r.nodes
              /\ lret' = r.ret
              /\ labs' = SeqRemove(labs, item)
              /\ labsret' = SeqFind(labs, item)
    /\ lop' = "remove"
    /\ UNCHANGED <<liter, lyield, lfault>>
    /\ UNCHANGED not_list_vars

\* a caller asks whether the list holds an item
ListContains ==
    /\ lfault = "none"
    /\ \E item \in Items :
          /\ lret' = list_contains(dll, lnodes, item)
          /\ labsret' = IF SeqFind(labs, item) # 0 THEN 1 ELSE 0
    /\ lop' = "contains"
    /\ UNCHANGED <<dll, lnodes, labs, liter, lyield, lfault>>
    /\ UNCHANGED not_list_vars

\* a caller sorts the list
ListSort ==
    /\ lfault = "none" /\ ~liter.live
    /\ LET r == list_sort(dll, lnodes)
       IN  /\ dll' = r.list
           /\ lnodes' = r.nodes
           /\ lfault' = r.fault
           /\ labs' = Walk(r.list, r.nodes)
    /\ lret' = 0
    /\ labsret' = 0
    /\ lop' = "sort"
    /\ UNCHANGED <<liter, lyield>>
    /\ UNCHANGED not_list_vars

\* a caller creates the iterator
ListCreateIter ==
    /\ lfault = "none" /\ ~liter.live
    /\ \E malloc_ok \in BOOLEAN :
          /\ liter' = list_createiter_at(dll, malloc_ok)
          /\ lret' = IF malloc_ok THEN 1 ELSE 0
          /\ labsret' = IF malloc_ok THEN 1 ELSE 0
    /\ lyield' = <<>>
    /\ lop' = "createiter"
    /\ UNCHANGED <<dll, lnodes, labs, lfault>>
    /\ UNCHANGED not_list_vars

\* a caller takes the next item from the iterator
ListNext ==
    /\ lfault = "none" /\ liter.live
    /\ LET r == list_next(liter, lnodes)
       IN  /\ liter' = r.iter
           /\ lret' = r.ret
           /\ lyield' = IF list_hasnext(liter) = 1 THEN lyield \o <<r.ret>>
                        ELSE lyield
    /\ labsret' = IF Len(lyield) < Len(labs) THEN labs[Len(lyield) + 1] ELSE 0
    /\ lop' = "next"
    /\ UNCHANGED <<dll, lnodes, labs, lfault>>
    /\ UNCHANGED not_list_vars

\* a caller rewinds the iterator
ListResetIter ==
    /\ lfault = "none" /\ liter.live
    /\ liter' = list_resetiter(liter, dll)
    /\ lyield' = <<>>
    /\ lret' = 0
    /\ labsret' = 0
    /\ lop' = "resetiter"
    /\ UNCHANGED <<dll, lnodes, labs, lfault>>
    /\ UNCHANGED not_list_vars

\* a caller destroys the iterator
ListDestroyIter ==
    /\ lfault = "none" /\ liter.live
    /\ liter' = list_destroyiter(liter)
    /\ lyield' = <<>>
    /\ lret' = 0
    /\ labsret' = 0
    /\ lop' = "destroyiter"
    /\ UNCHANGED <<dll, lnodes, labs, lfault>>
    /\ UNCHANGED not_list_vars

(* -------------------------- callers of map.h --------------------------- *)

MapInit ==
    /\ hmap = map_create
    /\ mabs = [k \in TestKeys \cup FillKeys |-> NullEntry]
    /\ mabsret = NullEntry
    /\ mret = NullEntry
    /\ mfault = "none"
    /\ mop = "create"

\* the key pointers a caller may pass to map_insert now: any pointer to a test
\* key, and the pointer to the lowest fill key not yet stored
InsertableKeys ==
    {key \in 1..(2 * Cardinality(TestKeys)) : TRUE}
    \cup {2 * k - 1 : k \in {f \in FillKeys :
                /\ mabs[f] = NullEntry
                /\ \A g \in FillKeys : g < f => mabs[g] # NullEntry}}

\* a caller inserts a pair
MapInsert ==
    /\ mfault = "none"
    /\ \E key \in InsertableKeys, failing \in 0..3 :
          \* failing: which of the call's allocations fails, 0 for none
          LET val == ValOf(key)
              r == map_insert(hmap, key, val,
                              failing # 1, failing # 2, failing # 3)
          IN  /\ hmap' = r.map
              /\ mret' = r.ret
              /\ mfault' = r.fault
              /\ mabs' = IF r.fault # "none" THEN mabs
                         ELSE [mabs EXCEPT ![MapKeyOf(key)] =
                                              [key |-> key, val |-> val]]
              /\ mabsret' = IF r.fault # "none" THEN NullEntry
                            ELSE mabs[MapKeyOf(key)]
    /\ mop' = "insert"
    /\ UNCHANGED not_map_vars

\* a caller removes a test key
MapRemove ==
    /\ mfault = "none"
    /\ \E key \in 1..(2 * Cardinality(TestKeys)) :
          LET r == map_remove(hmap, key)
          IN  /\ hmap' = r.map
              /\ mret' = r.ret
              /\ mabs' = [mabs EXCEPT ![MapKeyOf(key)] = NullEntry]
              /\ mabsret' = mabs[MapKeyOf(key)]
    /\ mop' = "remove"
    /\ UNCHANGED mfault
    /\ UNCHANGED not_map_vars

\* a caller looks a key up
MapGet ==
    /\ mfault = "none"
    /\ \E key \in 1..(2 * Cardinality(TestKeys)) :
          /\ mret' = map_get(hmap, key)
          /\ mabsret' = mabs[MapKeyOf(key)]
    /\ mop' = "get"
    /\ UNCHANGED <<hmap, mabs, mfault>>
    /\ UNCHANGED not_map_vars

(* -------------------------- callers of set.h --------------------------- *)

SetInit ==
    /\ rbset = set_create
    /\ tnodes = [n \in {NIL} \cup TreeNodeIds |->
                    IF n = NIL THEN sentinel ELSE NoTreeNode]
    /\ selem = 0
    /\ sret = 0
    /\ sfault = "none"
    /\ sop = "create"
    /\ siter = [live |-> FALSE, head |-> NIL]
    /\ sorder = <<>>
    /\ syield = <<>>

\* a caller inserts an element; the iterator is destroyed before the set is
\* altered
SetInsert ==
    /\ sfault = "none" /\ ~siter.live
    /\ \E elem \in SetElems, malloc_ok \in BOOLEAN :
          LET r == set_insert(rbset, tnodes, elem, malloc_ok)
          IN  /\ rbset' = r.set
              /\ tnodes' = r.nodes
              /\ sret' = r.ret
              /\ sfault' = r.fault
              /\ selem' = elem
    /\ sop' = "insert"
    /\ UNCHANGED <<siter, sorder, syield>>
    /\ UNCHANGED not_set_vars

\* a caller looks an element up, while no iterator is in use
SetGet ==
    /\ sfault = "none" /\ ~siter.live
    /\ \E elem \in SetElems :
          /\ sret' = set_get(rbset, tnodes, elem)
          /\ selem' = elem
    /\ sop' = "get"
    /\ UNCHANGED <<rbset, tnodes, sfault, siter, sorder, syield>>
    /\ UNCHANGED not_set_vars

\* the elements in ascending order of the set's cmpfn
RECURSIVE Ascending(_)
Ascending(elems) ==
    IF elems = {} THEN <<>>
    ELSE LET least == CHOOSE e \in elems :
                          \A other \in elems : set_cmpfn(e, other) <= 0
         IN  <<least>> \o Ascending(elems \ {least})

\* the elements held by the nodes of the subtree of node
RECURSIVE TreeElems(_, _)
TreeElems(nodes, node) ==
    IF node = NIL THEN {}
    ELSE {nodes[node].elem} \cup TreeElems(nodes, nodes[node].left)
                            \cup TreeElems(nodes, nodes[node].right)

\* a caller creates the iterator of the set
SetCreateIter ==
    /\ sfault = "none" /\ ~siter.live
    /\ \E malloc_ok \in BOOLEAN :
          /\ siter' = set_createiter(rbset, malloc_ok)
          /\ sorder' = IF malloc_ok THEN Ascending(TreeElems(tnodes, rbset.root))
                       ELSE <<>>
    /\ syield' = <<>>
    /\ selem' = 0
    /\ sret' = 0
    /\ sop' = "createiter"
    /\ UNCHANGED <<rbset, tnodes, sfault>>
    /\ UNCHANGED not_set_vars

\* a caller takes the next element from the iterator
SetNext ==
    /\ sfault = "none" /\ siter.live
    /\ \E r \in {set_next(siter, tnodes)} :
          /\ siter' = r.iter
          /\ tnodes' = r.nodes
          /\ sret' = r.ret
          /\ syield' = IF r.ret # 0 THEN Append(syield, r.ret) ELSE syield
    /\ selem' = 0
    /\ sop' = "next"
    /\ UNCHANGED <<rbset, sorder, sfault>>
    /\ UNCHANGED not_set_vars

\* a caller destroys the iterator
SetDestroyIter ==
    /\ sfault = "none" /\ siter.live
    /\ tnodes' = set_destroyiter(siter, tnodes)
    /\ siter' = [live |-> FALSE, head |-> NIL]
    /\ sorder' = <<>>
    /\ syield' = <<>>
    /\ selem' = 0
    /\ sret' = 0
    /\ sop' = "destroyiter"
    /\ UNCHANGED <<rbset, sfault>>
    /\ UNCHANGED not_set_vars

(* ------------------- callers of the set operations --------------------- *)

\* the keys of the elements of sets a and b; a holds the first element
\* pointer of a key, b the second
OpKeys == 1..MaxOpLen

OpsInit ==
    /\ oheap = [n \in 0..(4 * MaxOpLen) |->
                   IF n = NIL THEN sentinel ELSE NoTreeNode]
    /\ seta = set_create
    /\ setb = set_create
    /\ setc = [null |-> TRUE, root |-> NIL, length |-> 0]
    /\ osame = FALSE
    /\ ofault = "none"
    /\ oop = "create"

\* a caller fills set a, before set b
OpsInsertA ==
    /\ ofault = "none" /\ setc.null
    /\ setb.length = 0
    /\ \E k \in OpKeys, malloc_ok \in BOOLEAN :
          \E r \in {set_insert(seta, oheap, 2 * k - 1, malloc_ok)} :
              /\ seta' = r.set
              /\ oheap' = r.nodes
              /\ ofault' = r.fault
    /\ oop' = "insert_a"
    /\ osame' = FALSE
    /\ UNCHANGED <<setb, setc>>
    /\ UNCHANGED not_ops_vars

\* a caller fills set b
OpsInsertB ==
    /\ ofault = "none" /\ setc.null
    /\ \E k \in OpKeys, malloc_ok \in BOOLEAN :
          \E r \in {set_insert(setb, oheap, 2 * k, malloc_ok)} :
              /\ setb' = r.set
              /\ oheap' = r.nodes
              /\ ofault' = r.fault
    /\ oop' = "insert_b"
    /\ osame' = FALSE
    /\ UNCHANGED <<seta, setc>>
    /\ UNCHANGED not_ops_vars

\* a caller takes the union of a and b, or of a and a
SetUnion ==
    /\ ofault = "none" /\ setc.null
    /\ \E same \in BOOLEAN, create_ok \in BOOLEAN, malloc_ok \in BOOLEAN :
          \E r \in {set_union(seta, IF same THEN seta ELSE setb, same, oheap,
                              create_ok, malloc_ok)} :
              /\ setc' = r.c
              /\ oheap' = r.nodes
              /\ ofault' = r.fault
              /\ osame' = same
    /\ oop' = "union"
    /\ UNCHANGED <<seta, setb>>
    /\ UNCHANGED not_ops_vars

\* a caller takes the intersection of a and b, or of a and a
SetIntersection ==
    /\ ofault = "none" /\ setc.null
    /\ \E same \in BOOLEAN, create_ok \in BOOLEAN, malloc_ok \in BOOLEAN :
          \E r \in {set_intersection(seta, IF same THEN seta ELSE setb, same,
                                     oheap, create_ok, malloc_ok)} :
              /\ setc' = r.c
              /\ oheap' = r.nodes
              /\ ofault' = r.fault
              /\ osame' = same
    /\ oop' = "intersection"
    /\ UNCHANGED <<seta, setb>>
    /\ UNCHANGED not_ops_vars

\* a caller takes the difference of a and b, or of a and a
SetDifference ==
    /\ ofault = "none" /\ setc.null
    /\ \E same \in BOOLEAN, create_ok \in BOOLEAN, malloc_ok \in BOOLEAN :
          \E r \in {set_difference(seta, IF same THEN seta ELSE setb, same,
                                   oheap, create_ok, malloc_ok)} :
              /\ setc' = r.c
              /\ oheap' = r.nodes
              /\ ofault' = r.fault
              /\ osame' = same
    /\ oop' = "difference"
    /\ UNCHANGED <<seta, setb>>
    /\ UNCHANGED not_ops_vars

\* a caller destroys the set an operation returned, set_destroy(c, NULL)
OpsDestroyC ==
    /\ ofault = "none" /\ ~setc.null
    /\ oheap' = rec_postorder_destroy(oheap, setc.root)
    /\ setc' = [null |-> TRUE, root |-> NIL, length |-> 0]
    /\ oop' = "destroy_c"
    /\ osame' = FALSE
    /\ UNCHANGED <<seta, setb, ofault>>
    /\ UNCHANGED not_ops_vars

(* ------------------------ callers of tokenize.h ------------------------ *)

\* the token list is created empty
TokInit ==
    /\ tlist = <<>>
    /\ tentry = <<>>
    /\ tstr = <<>>
    /\ tmin = 1
    /\ tsite = CHOOSE site \in CallSites : site.transformfn = "NULL"
    /\ tstatus = 0
    /\ tfailed = FALSE
    /\ tleak = 0
    /\ top = "create"

\* what a call leaves behind
TokReturn(r, str, min_token_len, site, name) ==
    /\ tlist' = r.list
    /\ tentry' = tlist
    /\ tstr' = str
    /\ tmin' = min_token_len
    /\ tsite' = site
    /\ tstatus' = r.status
    /\ tfailed' = r.failed
    /\ tleak' = r.dup - r.freed - (Len(r.list) - Len(tlist))
    /\ top' = name

\* the caller adds the token "a" to the list it is going to hand over
TokListAddLast ==
    /\ top \in {"create", "addlast"}
    /\ Len(tlist) < MaxEntryLen
    /\ tlist' = Append(tlist, <<97>>)
    /\ top' = "addlast"
    /\ UNCHANGED <<tentry, tstr, tmin, tsite, tstatus, tfailed, tleak>>
    /\ UNCHANGED not_tok_vars

\* a caller tokenizes a string into the list it prepared; at most one
\* allocation fails
TokenizeString ==
    /\ top \in {"create", "addlast"}
    /\ \E str \in Strings, min_token_len \in MinTokenLens, site \in CallSites,
          failing \in 0..(2 * MaxStrLen) :
          \E r \in {tokenize_string(str, tlist, min_token_len, site, failing)} :
             TokReturn(r, str, min_token_len, site, "string")
    /\ UNCHANGED not_tok_vars

\* a caller tokenizes a file positioned at its start; fsize, malloc or the
\* read may fail, or at most one allocation of a token
TokenizeFile ==
    /\ top \in {"create", "addlast"}
    /\ \E content \in Strings, min_token_len \in MinTokenLens,
          site \in CallSites, env \in {"ok", "fsize", "malloc", "read"},
          failing \in 0..(2 * MaxStrLen) :
          /\ env # "ok" => failing = 0
          /\ \E r \in {tokenize_file(content, tlist, min_token_len, site, env,
                                     failing)} :
                TokReturn(r, content, min_token_len, site, "file")
    /\ UNCHANGED not_tok_vars

\* list_destroy(tokens, free): the caller frees the tokens and starts again
TokListDestroy ==
    /\ top \in {"string", "file"}
    /\ tlist' = <<>>
    /\ tentry' = <<>>
    /\ tstr' = <<>>
    /\ tmin' = 1
    /\ tsite' = CHOOSE site \in CallSites : site.transformfn = "NULL"
    /\ tstatus' = 0
    /\ tfailed' = FALSE
    /\ tleak' = 0
    /\ top' = "create"
    /\ UNCHANGED not_tok_vars

(* -------------------------- specifications ----------------------------- *)

Init == IndexInit /\ ListInit /\ MapInit /\ SetInit /\ OpsInit /\ TokInit

Next == IndexDocument \/ IndexQuery \/ IndexStat \/ IndexDestroy

Spec == Init /\ [][Next]_vars

NextList ==
    \/ ListAddFirst \/ ListAddLast \/ ListPopFirst \/ ListPopLast
    \/ ListRemove \/ ListContains \/ ListSort
    \/ ListCreateIter \/ ListNext \/ ListResetIter \/ ListDestroyIter

SpecList == Init /\ [][NextList]_vars

NextMap == MapInsert \/ MapRemove \/ MapGet

SpecMap == Init /\ [][NextMap]_vars

NextSet ==
    \/ SetInsert \/ SetGet
    \/ SetCreateIter \/ SetNext \/ SetDestroyIter

SpecSet == Init /\ [][NextSet]_vars

NextOps ==
    \/ OpsInsertA \/ OpsInsertB
    \/ SetUnion \/ SetIntersection \/ SetDifference
    \/ OpsDestroyC

SpecOps == Init /\ [][NextOps]_vars

NextTok ==
    \/ TokListAddLast
    \/ TokenizeString
    \/ TokenizeFile
    \/ TokListDestroy

SpecTok == Init /\ [][NextTok]_vars

(* ------------- what the documentation asks of a query ------------------ *)

\* the documents whose term list contained term t
DocsWith(t) == {d \in given_docs : <<d, t>> \in given_terms}

\* the document names of a returned list
ResultDocs(res) == {res.items[i].doc_name : i \in 1..Len(res.items)}

\* a returned list is in descending order of score
SortedByScore(res) ==
    \A i \in 1..(Len(res.items) - 1) : res.items[i].score >= res.items[i + 1].score

\* The grammar of a query, evaluated over the documents given so far:
\*   Or := And ('|' And)*   And := Not ('&' Not)*   Not := '!' Not | Atom
\*   Atom := TERM | '(' Or ')'
\* Each operator reads q from position i and yields whether it parsed, the
\* documents of what it parsed, and the position after it.
RejectedAt == [ok |-> FALSE, docs |-> {}, pos |-> 0]

RECURSIVE ExpectOr(_, _), ExpectOrRest(_, _, _), ExpectAnd(_, _),
          ExpectAndRest(_, _, _), ExpectNot(_, _), ExpectAtom(_, _)

ExpectAtom(q, i) ==
    IF i > Len(q) THEN RejectedAt
    ELSE IF q[i] = "("
    THEN LET r == ExpectOr(q, i + 1)
         IN  IF r.ok /\ r.pos <= Len(q) /\ q[r.pos] = ")"
             THEN [r EXCEPT !.pos = r.pos + 1]
             ELSE RejectedAt
    ELSE IF q[i] \in Operators THEN RejectedAt
    ELSE [ok |-> TRUE, docs |-> DocsWith(q[i]), pos |-> i + 1]

ExpectNot(q, i) ==
    IF i <= Len(q) /\ q[i] = "!"
    THEN LET r == ExpectNot(q, i + 1)
         IN  IF r.ok THEN [r EXCEPT !.docs = given_docs \ r.docs] ELSE RejectedAt
    ELSE ExpectAtom(q, i)

ExpectAndRest(q, i, acc) ==
    IF i <= Len(q) /\ q[i] = "&"
    THEN LET r == ExpectNot(q, i + 1)
         IN  IF r.ok THEN ExpectAndRest(q, r.pos, acc \cap r.docs) ELSE RejectedAt
    ELSE [ok |-> TRUE, docs |-> acc, pos |-> i]

ExpectAnd(q, i) ==
    LET r == ExpectNot(q, i)
    IN  IF r.ok THEN ExpectAndRest(q, r.pos, r.docs) ELSE RejectedAt

ExpectOrRest(q, i, acc) ==
    IF i <= Len(q) /\ q[i] = "|"
    THEN LET r == ExpectAnd(q, i + 1)
         IN  IF r.ok THEN ExpectOrRest(q, r.pos, acc \cup r.docs) ELSE RejectedAt
    ELSE [ok |-> TRUE, docs |-> acc, pos |-> i]

ExpectOr(q, i) ==
    LET r == ExpectAnd(q, i)
    IN  IF r.ok THEN ExpectOrRest(q, r.pos, r.docs) ELSE RejectedAt

\* the whole token list is one expression
Expected(q) ==
    LET r == ExpectOr(q, 1)
    IN  IF r.ok /\ r.pos = Len(q) + 1 THEN r ELSE RejectedAt

(* ------------------------------ claims -------------------------------- *)

\* C1: every index_query call ends either with NULL and a non-empty reason in
\* errbuf, or with a non-NULL list sorted by score in descending order; never
\* with NULL and an empty errbuf.
QueryEndsInListOrReason ==
    op = "query" =>
        \/ results.null /\ errmsg_buf # ""
        \/ ~results.null /\ SortedByScore(results)

\* C2: index_query rejects exactly the malformed token lists (NULL and a
\* non-empty errbuf for a missing operand, an unmatched parenthesis, two
\* adjacent terms, the empty query) and returns a list for a well-formed one.
RejectsExactlyMalformed ==
    op = "query" =>
        /\ ~Expected(tokens_in).ok => results.null /\ errmsg_buf # ""
        /\ Expected(tokens_in).ok => ~results.null

\* C3: a well-formed query that matches no document returns an empty non-NULL
\* list and reports no error.
NoMatchIsEmptyList ==
    (op = "query" /\ Expected(tokens_in).ok /\ Expected(tokens_in).docs = {}) =>
        /\ ~results.null
        /\ Len(results.items) = 0
        /\ errmsg_buf = ""
        /\ report = "results"

\* C4: each successful index_document call raises the n_docs that index_stat
\* reports by exactly 1 and never lowers the n_terms it reports.
EachDocumentRaisesDocCount ==
    [][(op' = "document" /\ status' = 0) =>
          /\ index_stat(index').n_docs = index_stat(index).n_docs + 1
          /\ index_stat(index').n_terms >= index_stat(index).n_terms]_vars

\* C5: index_stat sets n_docs to the number of distinct document names given
\* to index_document and n_terms to the number of distinct terms in those
\* documents; a fresh index reports 0 and 0.
StatCountsDistinctDocsAndTerms ==
    op = "stat" =>
        /\ n_docs = Cardinality(given_docs)
        /\ n_terms = Cardinality({p[2] : p \in given_terms})

\* C6: the documents returned for a query tree are those of its set algebra:
\* a term yields the documents that contained it, And the intersection, Or the
\* union, Not the indexed documents minus those of its operand.
ResultIsSetAlgebraOfTree ==
    (op = "query" /\ Expected(tokens_in).ok) =>
        /\ ~results.null
        /\ ResultDocs(results) = Expected(tokens_in).docs

\* C7: "A & B" returns a subset of what "A | B" returns, "A & !A" returns
\* nothing, and "A | !A" returns every indexed document.
AndOrNotAlgebra ==
    op = "query" =>
        \A a, b \in QueryTerms :
            /\ tokens_in = <<a, "&", b>> =>
                  LET either == index_query(index, <<a, "|", b>>, "", TRUE).results
                  IN  /\ ~results.null
                      /\ ~either.null
                      /\ ResultDocs(results) \subseteq ResultDocs(either)
            /\ tokens_in = <<a, "&", "!", a>> =>
                  ~results.null /\ ResultDocs(results) = {}
            /\ tokens_in = <<a, "|", "!", a>> =>
                  ~results.null /\ ResultDocs(results) = given_docs

\* C8: NOT binds tighter than AND and AND tighter than OR: "a | b & c" returns
\* the documents of "a | (b & c)", "!a & b" those of "(!a) & b", and
\* parentheses override the grouping.
PrecedenceNotAndOr ==
    op = "query" =>
        /\ tokens_in = <<"cat", "|", "dog", "&", "bird">> =>
              LET grouped == index_query(index,
                      <<"cat", "|", "(", "dog", "&", "bird", ")">>, "", TRUE).results
              IN  /\ ~results.null
                  /\ ~grouped.null
                  /\ ResultDocs(results) = ResultDocs(grouped)
        /\ tokens_in = <<"!", "cat", "&", "dog">> =>
              LET grouped == index_query(index,
                      <<"(", "!", "cat", ")", "&", "dog">>, "", TRUE).results
              IN  /\ ~results.null
                  /\ ~grouped.null
                  /\ ResultDocs(results) = ResultDocs(grouped)
        /\ tokens_in = <<"(", "cat", "|", "dog", ")", "&", "bird">> =>
              /\ ~results.null
              /\ ResultDocs(results) =
                    (DocsWith("cat") \cup DocsWith("dog")) \cap DocsWith("bird")
        /\ tokens_in = <<"!", "(", "cat", "&", "dog", ")">> =>
              /\ ~results.null
              /\ ResultDocs(results) =
                    given_docs \ (DocsWith("cat") \cap DocsWith("dog"))

\* C10: index_query does not change the index: the index and what index_stat
\* reports are the same before and after a query, and a query that repeats the
\* one before it ends the same way.
QueryLeavesIndexUnchanged ==
    [][op' = "query" =>
          /\ index' = index
          /\ live_iters' = live_iters
          /\ index_stat(index') = index_stat(index)
          /\ repeated' => (results' = results /\ errmsg_buf' = errmsg_buf)]_vars

\* C10, its case: a query was repeated on an index that was given documents
QueryRepeatedOnDocuments ==
    /\ op = "query"
    /\ repeated
    /\ n_calls > 0
    /\ given_terms # {}

\* C11: what index_document is given (doc_name, the terms list, every term
\* string) belongs to the index; once index_destroy has run, each of those
\* allocations and every iterator the index created has been freed.
DestroyFreesWhatIndexOwns ==
    op = "destroy" =>
        /\ live_allocs = 0
        /\ live_iters = 0

\* C12: index_query never destroys the token list, frees every token it
\* removes and leaves the others live, so that with the caller's
\* list_destroy(tokens, free) the list and each token are freed exactly once.
QueryTokensFreedExactlyOnce ==
    op = "query" =>
        /\ list_frees = 1
        /\ \A i \in 1..Len(tokens_in) : token_frees[i] = 1

\* C12, its case: a query of several tokens has run
QueryOfSeveralTokensRan ==
    /\ op = "query"
    /\ Len(tokens_in) > 1
    /\ Len(token_frees) = Len(tokens_in)

\* the left and right links, leftmost and rightmost describe one chain: the
\* left link of each node is the node before it, rightmost is the last node,
\* and the nodes of the chain are exactly the allocated ones
LinksConsistent(list, nodes) ==
    LET chain == NodesFrom(nodes, list.leftmost)
    IN  /\ (list.leftmost = 0) <=> (list.rightmost = 0)
        /\ \A i \in 1..Len(chain) :
              /\ nodes[chain[i]].live
              /\ nodes[chain[i]].left = IF i = 1 THEN 0 ELSE chain[i - 1]
        /\ chain # <<>> => list.rightmost = chain[Len(chain)]
        /\ {n \in NodeIds : nodes[n].live} = {chain[i] : i \in 1..Len(chain)}

\* how often item occurs in the sequence
RECURSIVE Count(_, _)
Count(s, item) ==
    IF s = <<>> THEN 0
    ELSE (IF Head(s) = item THEN 1 ELSE 0) + Count(Tail(s), item)

\* C14: after any sequence of list_addfirst, list_addlast, list_popfirst,
\* list_poplast, list_remove and list_sort calls, list_length returns the
\* number of nodes reachable from leftmost.
LengthIsNodeCount ==
    list_length(dll) = Len(Walk(dll, lnodes))

\* C15: list_popfirst and list_poplast panic exactly when the list holds no
\* items and otherwise return the first or last item of the list; no pop reads
\* through a NULL leftmost or rightmost.
PopPanicsExactlyOnEmpty ==
    [][lop' \in {"popfirst", "poplast"} =>
          LET before == Walk(dll, lnodes)
          IN  IF before = <<>> THEN lfault' = "panic"
              ELSE /\ lfault' = "none"
                   /\ lret' = IF lop' = "popfirst" THEN before[1]
                              ELSE before[Len(before)]]_vars

\* C16: the list refines a sequence: after every call the items from leftmost
\* rightwards are the sequence that prepending, appending, removing the first
\* or last item and removing the first equal item produce, each call returns
\* what it returns on the sequence, the iterator has yielded the items to the
\* left of where it stands in order, and the links are consistent.
ListRefinesSequence ==
    /\ Walk(dll, lnodes) = labs
    /\ LinksConsistent(dll, lnodes)
    /\ lfault = "none" => lret = labsret
    /\ liter.live => lyield \o ItemsFrom(lnodes, liter.node) = labs

\* C16, its case: list_remove found its item in a list of three and took it out
RemovedOneOfThree ==
    /\ lop = "remove"
    /\ lret # 0
    /\ Len(labs) = 2
    /\ dll.length = 3

\* C17: when list_sort returns, the list holds each item as often as before,
\* no item compares greater than the one to its right, and leftmost, rightmost
\* and the left links are consistent with the new order.
SortKeepsItemsInOrder ==
    [][lop' = "sort" /\ lfault' = "none" =>
          LET before == Walk(dll, lnodes)
              after == Walk(dll', lnodes')
          IN  /\ Len(after) = Len(before)
              /\ \A item \in Items : Count(after, item) = Count(before, item)
              /\ \A i \in 1..(Len(after) - 1) : cmpfn(after[i], after[i + 1]) <= 0
              /\ LinksConsistent(dll', lnodes')]_vars

\* C17, its case: list_sort has sorted a list of at least three items, not
\* all of them equal
SortedThreeItems ==
    /\ lop = "sort"
    /\ lfault = "none"
    /\ Len(labs) >= 3
    /\ cmpfn(labs[1], labs[Len(labs)]) < 0

\* C18: the map refines a key-to-value dictionary: every map_insert,
\* map_remove and map_get returns the entry the dictionary gives (NULL for an
\* absent key, the old key and value for a replaced or removed one), and
\* map_get of every key returns the entry last inserted for it, or NULL;
\* also after the buckets were resized.
MapRefinesDictionary ==
    mfault = "none" =>
        /\ mret = mabsret
        /\ \A k \in TestKeys \cup FillKeys :
              /\ map_get(hmap, 2 * k - 1) = mabs[k]
              /\ map_get(hmap, 2 * k) = mabs[k]

\* C18, its case: in a map that has grown, map_insert replaced the entry of a
\* key and returned the old one
ReplacedAfterResize ==
    /\ mfault = "none"
    /\ hmap.capacity > N_BUCKETS_INITIAL
    /\ mop = "insert"
    /\ mret # NullEntry
    /\ map_get(hmap, mret.key) # mret

\* C19: map_length is the number of nodes over all chains and the number of
\* distinct keys stored, every node is in bucket hash(key) mod capacity, and
\* the assertion of map_resize does not fail.
MapLengthAndBuckets ==
    LET nodes == ChainsFrom(hmap, 0)
    IN  /\ mfault # "assert"
        /\ map_length(hmap) = Len(nodes)
        /\ map_length(hmap) =
              Cardinality({MapKeyOf(nodes[j].key) : j \in 1..Len(nodes)})
        /\ \A i \in 0..(hmap.capacity - 1) :
              \A j \in 1..Len(hmap.buckets[i]) :
                  hashfn(hmap.buckets[i][j].key) % hmap.capacity = i

\* C19, its case: in a map that has grown and still has a chain of two nodes,
\* map_remove removed a key
RemovedAfterResize ==
    /\ mfault = "none"
    /\ hmap.capacity > N_BUCKETS_INITIAL
    /\ \E i \in 0..(hmap.capacity - 1) : Len(hmap.buckets[i]) > 1
    /\ mop = "remove"
    /\ mret # NullEntry

RECURSIVE TreeNodesOf(_, _)
TreeNodesOf(nodes, node) ==
    IF node = NIL THEN {}
    ELSE {node} \cup TreeNodesOf(nodes, nodes[node].left)
                \cup TreeNodesOf(nodes, nodes[node].right)

\* the keys of a set of elements: elements compare equal when their keys are
\* the same
KeysOf(elems) == {SetKeyOf(e) : e \in elems}

\* what C21 asks of the set c an operation returned for a and b
SetOpResultIsRight ==
    LET in_a == TreeElems(oheap, seta.root)
        in_b == IF osame THEN in_a ELSE TreeElems(oheap, setb.root)
        in_c == TreeElems(oheap, setc.root)
        nodes_ab == TreeNodesOf(oheap, seta.root) \cup TreeNodesOf(oheap, setb.root)
        nodes_c == TreeNodesOf(oheap, setc.root)
    IN  /\ oop = "union" => KeysOf(in_c) = KeysOf(in_a) \cup KeysOf(in_b)
        /\ oop = "intersection" => KeysOf(in_c) = KeysOf(in_a) \cap KeysOf(in_b)
        /\ oop = "difference" =>
              /\ KeysOf(in_c) = KeysOf(in_a) \ KeysOf(in_b)
              /\ in_c \subseteq in_a
        /\ in_c \subseteq in_a \cup in_b
        /\ set_length(setc) = Cardinality(nodes_c)
        /\ set_length(setc) = Cardinality(KeysOf(in_c))
        /\ nodes_c \cap nodes_ab = {}

RECURSIVE BlackHeight(_, _)
BlackHeight(nodes, node) ==
    IF node = NIL THEN 0
    ELSE LET l == BlackHeight(nodes, nodes[node].left)
             r == BlackHeight(nodes, nodes[node].right)
         IN  IF l = -1 \/ r = -1 \/ l # r THEN -1
             ELSE IF nodes[node].color = "BLACK" THEN l + 1 ELSE l

\* no red node of the subtree of node has a red child
RECURSIVE NoRedRed(_, _)
NoRedRed(nodes, node) ==
    \/ node = NIL
    \/ /\ nodes[node].color = "RED" =>
             /\ nodes[nodes[node].left].color = "BLACK"
             /\ nodes[nodes[node].right].color = "BLACK"
       /\ NoRedRed(nodes, nodes[node].left)
       /\ NoRedRed(nodes, nodes[node].right)

\* the elements of the subtree of node in the order of an in-order walk
RECURSIVE InOrder(_, _)
InOrder(nodes, node) ==
    IF node = NIL THEN <<>>
    ELSE InOrder(nodes, nodes[node].left) \o <<nodes[node].elem>>
         \o InOrder(nodes, nodes[node].right)

\* C25: after any sequence of set_insert calls the tree is a valid red-black
\* search tree: the root is black, no red node has a red child, every path
\* from the root to a NIL leaf passes the same number of black nodes, an
\* in-order walk is strictly ascending, and no assertion of validate_rbtree
\* has failed. While an iterator is in use the tree carries the temporary
\* links of the traversal; it is looked at when none is.
TreeIsValidRedBlack ==
    /\ sfault # "assert"
    /\ ~siter.live =>
          /\ tnodes[rbset.root].color = "BLACK"
          /\ NoRedRed(tnodes, rbset.root)
          /\ BlackHeight(tnodes, rbset.root) # -1
          /\ LET walk == InOrder(tnodes, rbset.root)
             IN  /\ Len(walk) = rbset.length
                 /\ \A i \in 1..(Len(walk) - 1) :
                       set_cmpfn(walk[i], walk[i + 1]) < 0

\* C25, its case: the fourth element was just inserted below a red parent
\* with a red uncle, so the tree was recolored up to the root
RecoloredFourNodeTree ==
    /\ sop = "insert"
    /\ sret = 0
    /\ sfault = "none"
    /\ rbset.length = 4
    /\ tnodes[tnodes[rbset.root].left].color = "BLACK"
    /\ tnodes[tnodes[rbset.root].right].color = "BLACK"
    /\ tnodes[rbset.root].left # NIL
    /\ tnodes[rbset.root].right # NIL

\* C23: whenever an append of a token fails inside tokenize_string, the call
\* returns a negative status and the list is as it was on entry, same length
\* and same items, with every copy made by the call freed.
FailedAppendRevertsList ==
    (top = "string" /\ tfailed) =>
        /\ tstatus < 0
        /\ tlist = tentry
        /\ tleak = 0

\* C24: for a readable file tokenize_file appends exactly the tokens that
\* tokenize_string appends for the complete content of the file, with the
\* same min_token_len, delimitfn, filterfn and transformfn.
FileTokensAreStringTokens ==
    (top = "file" /\ tstatus = 0 /\ ~tfailed) =>
        tlist = tokenize_string(tstr, tentry, tmin, tsite, 0).list

====
